---------------------------- MODULE Spec2Model ----------------------------
(***************************************************************************)
(* Leash relay server: agent registry (AgentManager), transcript tailer    *)
(* (TranscriptWatcher), fan-out hub (WebSocketHandler), REST routes and    *)
(* the outbound message queue (createRoutes), as one state machine.        *)
(*                                                                         *)
(* Text is modelled as a sequence of tokens (a fixed prefix is one token,  *)
(* user supplied text is one token per character), so that substring and   *)
(* concatenation do what the code does.  A JavaScript Map is an ordered    *)
(* map: a sequence of [k, v] entries in insertion order.                   *)
(***************************************************************************)
EXTENDS Integers, Sequences, FiniteSets, Bags, TLC

VARIABLES
    agents,             \* AgentManager.agents            Map<id, Agent>
    ringHistory,        \* AgentManager.activityHistory   Map<id, string[]>
    transcriptWatchers, \* AgentManager.transcriptWatchers Map<id, TranscriptWatcher>
    knownProcesses,     \* AgentDetector.knownProcesses   (set of process keys)
    nextOid,            \* identity given to the next Agent object created
    clients,            \* WebSocketHandler.clients
    readyState,         \* ws.readyState of every socket
    activityHistory,    \* WebSocketHandler.activityHistory Map<id, {content,timestamp}[]>
    chatHistory,        \* WebSocketHandler.chatHistory   Map<id, TranscriptMessage[]>
    frames,             \* frames written to every socket by ws.send, in order
    clock,              \* Date.now(), one tick per 'activity' event
    messageQueues,      \* routes.messageQueues           Map<id, string[]>
    scripts,            \* the injection/interrupt scripts running (execAsync pending)
    files,              \* the transcript logs on disk, by path
    emitted,            \* every event emitted by the AgentManager, in order
    opLog,              \* every queue request answered, with its response, in order
    subscriptions,      \* WebSocketHandler.subscriptions   Map<WebSocket, Set<id>>
    calls,              \* the relay's own HTTP requests to its routes, and their answers, in flight
    commands,           \* every command a client sent, in order
    last                \* the operation performed by the latest step and its result

vars == <<agents, ringHistory, transcriptWatchers, knownProcesses, nextOid,
          clients, readyState, activityHistory, chatHistory, frames, clock,
          messageQueues, scripts, files, emitted, opLog, subscriptions, calls, commands, last>>

---------------------------------------------------------------------------
(* Bounds of the model *)

MaxActivity      == 2    \* 'activity' events per behaviour of Spec
MaxLifecycle     == 2    \* agents connected or disconnected per behaviour of Spec
ReplayActivity   == 3    \* 'activity' events per behaviour of SpecReplay
HooksActivity    == 2    \* 'activity' events per behaviour of SpecHooks
HistoryActivity  == 52   \* 'activity' events per behaviour of SpecHistory and SpecDelivery
RegistryActivity == 3    \* 'activity' events per behaviour of SpecRegistry
HistoryOther     == 2    \* 'activity' events of the second agent under SpecHistory
MaxLines         == 2    \* lines of a transcript log under SpecTailer and SpecStatic
MaxReads         == 2    \* reads in flight per watcher under SpecTailer
MaxQueueOps      == 5    \* queue requests per behaviour of SpecQueue
MaxCommands      == 2    \* commands of the clients per behaviour of SpecCommands
MaxPurge         == 3   \* agents connected and disconnected in SpecPurge
ChatMessages     == 201 \* records appended to the log in SpecChat
MaxLag           == 2   \* records the tailer may be behind the log in SpecChat
RingActivity     == 101 \* 'activity' events of the first agent under SpecRing
MaxAgents        == 3   \* agents registered under SpecKinds
MaxPolled        == 2   \* messages enqueued per behaviour of SpecPolling
MaxScans         == 3   \* scans started per behaviour of SpecOverlap
MaxMirror        == 2   \* 'activity' events under SpecMirror

---------------------------------------------------------------------------
(* JavaScript Map, in insertion order *)

MapHas(m, k) == \E i \in 1..Len(m) : m[i].k = k

MapGet(m, k) == m[CHOOSE i \in 1..Len(m) : m[i].k = k].v

MapSet(m, k, v) ==
    IF MapHas(m, k)
    THEN [i \in 1..Len(m) |-> IF m[i].k = k THEN [k |-> k, v |-> v] ELSE m[i]]
    ELSE Append(m, [k |-> k, v |-> v])

\* a delete that leaves the map as it is
MapDeleteNone(m, k) == m

MapDelete(m, k) ==
    LET keep(e) == e.k # k IN SelectSeq(m, keep)

MapKeys(m) == {m[i].k : i \in 1..Len(m)}

MapValues(m) == [i \in 1..Len(m) |-> m[i].v]

---------------------------------------------------------------------------
(* Text helpers *)

Min(a, b) == IF a < b THEN a ELSE b

\* String.prototype.substring(0, n)
Substring(s, n) == SubSeq(s, 1, Min(n, Len(s)))

\* s contains t as a contiguous run of tokens
Contains(s, t) ==
    \E i \in 0..(Len(s) - Len(t)) : SubSeq(s, i + 1, i + Len(t)) = t

RECURSIVE Flatten(_)
Flatten(ss) == IF ss = <<>> THEN <<>> ELSE Head(ss) \o Flatten(Tail(ss))

\* Array.prototype.join(sep) of an array of texts
RECURSIVE Join(_, _)
Join(ss, sep) ==
    IF ss = <<>> THEN <<>>
    ELSE IF Len(ss) = 1 THEN ss[1]
    ELSE ss[1] \o sep \o Join(Tail(ss), sep)

\* String.prototype.split('\n'): the runs of tokens between "\n" tokens
RECURSIVE SplitLines(_)
SplitLines(s) ==
    IF \A i \in 1..Len(s) : s[i] # "\n" THEN <<s>>
    ELSE LET n == CHOOSE i \in 1..Len(s) :
                     s[i] = "\n" /\ \A j \in 1..(i - 1) : s[j] # "\n"
         IN <<SubSeq(s, 1, n - 1)>> \o SplitLines(SubSeq(s, n + 1, Len(s)))

\* the part of a path after its last separator: split(/[/\\]/).pop()
RECURSIVE BaseName(_)
BaseName(s) ==
    IF \A i \in 1..Len(s) : s[i] \notin {"/", "\\"} THEN s
    ELSE BaseName(Tail(s))

\* s without its i-th element
RemoveAt(s, i) == SubSeq(s, 1, i - 1) \o SubSeq(s, i + 1, Len(s))

Hello == <<"h", "e", "l", "l", "o">>
Empty == <<>>

---------------------------------------------------------------------------
(* TranscriptWatcher (src/server/src/transcript-watcher.ts) *)

\* JsonlEntry.message: absent, a string, or an array of content blocks
NoMessage        == [t |-> "none",   s |-> <<>>, blocks |-> <<>>]
StringMessage(s) == [t |-> "string", s |-> s,    blocks |-> <<>>]
ArrayMessage(bs) == [t |-> "array",  s |-> <<>>, blocks |-> bs]

NoInput == [has |-> FALSE, file_path |-> <<>>, old_string |-> <<>>,
            new_string |-> <<>>, content |-> <<>>, command |-> <<>>,
            description |-> <<>>, pattern |-> <<>>, path |-> <<>>,
            url |-> <<>>, query |-> <<>>]

TextBlock(text)      == [type |-> "text", text |-> text, name |-> "", input |-> NoInput]
ToolBlock(name, inp) == [type |-> "tool_use", text |-> <<>>, name |-> name, input |-> inp]

NoToolUse == [name |-> "", input |-> NoInput]

\* One line of a log: blank, not JSON, or a JSON entry
BlankLine == [kind |-> "blank", uuid |-> "", type |-> "", timestamp |-> "",
              message |-> NoMessage]
BadLine   == [kind |-> "bad", uuid |-> "", type |-> "", timestamp |-> "",
              message |-> NoMessage]
JsonLine(uuid, type, message) ==
    [kind |-> "json", uuid |-> uuid, type |-> type, timestamp |-> "ts",
     message |-> message]

\* a || b on texts: the empty text is falsy
OrElse(a, b) == IF a # <<>> THEN a ELSE b

PrefixLines(ls, p) == [i \in 1..Len(ls) |-> <<p>> \o ls[i]]

FormatToolUse(toolName, input) ==
    IF ~input.has THEN <<"tool: ", toolName>>
    ELSE CASE toolName = "Edit" ->
                LET fileName == OrElse(BaseName(input.file_path), input.file_path)
                    head     == <<"Edit: ">> \o fileName \o <<"\n">>
                    oldLines == Join(PrefixLines(SplitLines(input.old_string), "- "), <<"\n">>)
                    newLines == Join(PrefixLines(SplitLines(input.new_string), "+ "), <<"\n">>)
                IN IF input.old_string # <<>> /\ input.new_string # <<>>
                   THEN head \o <<"\n">> \o oldLines \o <<"\n">> \o newLines
                   ELSE head
           [] toolName = "Write" ->
                LET fileName == OrElse(BaseName(input.file_path), input.file_path)
                    preview  == IF Len(input.content) > 500
                                THEN Substring(input.content, 500) \o <<"...">>
                                ELSE input.content
                IN <<"Write: ">> \o fileName \o <<"\n", "\n">> \o preview
           [] toolName = "Read" ->
                <<"Read: ">> \o OrElse(BaseName(input.file_path), input.file_path)
           [] toolName = "Bash" ->
                <<"Bash: ">> \o OrElse(input.description, input.command)
           [] toolName = "Grep" ->
                <<"Grep: \"">> \o input.pattern \o <<"\" in ">> \o OrElse(input.path, <<".">>)
           [] toolName = "Glob" -> <<"Glob: ">> \o input.pattern
           [] toolName = "WebFetch" -> <<"WebFetch: ">> \o input.url
           [] toolName = "WebSearch" -> <<"WebSearch: ">> \o input.query
           [] toolName = "TodoWrite" -> <<"TodoWrite">>
           [] OTHER -> <<"tool: ", toolName>>

\* the text blocks gathered by parseMessage's loop over an array content
RECURSIVE TextBlocks(_)
TextBlocks(blocks) ==
    IF blocks = <<>> THEN <<>>
    ELSE LET b == Head(blocks) IN
         (IF b.type = "text" /\ b.text # <<>> THEN <<b.text>>
          ELSE IF b.type = "tool_use" /\ b.name # ""
               THEN LET Push(toolContent) ==
                            IF toolContent # <<>> THEN <<toolContent>> ELSE <<>>
                    IN Push(FormatToolUse(b.name, b.input))
               ELSE <<>>)
         \o TextBlocks(Tail(blocks))

\* the last tool_use block of an array content (toolUse is overwritten per block)
RECURSIVE LastToolUse(_, _)
LastToolUse(blocks, acc) ==
    IF blocks = <<>> THEN acc
    ELSE LET b == Head(blocks) IN
         LastToolUse(Tail(blocks),
             IF b.type = "tool_use" /\ b.name # ""
             THEN [name |-> b.name, input |-> b.input]
             ELSE acc)

NullMessage == [null |-> TRUE, role |-> "", content |-> <<>>, timestamp |-> "",
                uuid |-> "", toolUse |-> NoToolUse]

ParseMessage(entry) ==
    IF entry.message.t = "none" THEN NullMessage
    ELSE LET Message(content, toolUse) ==
                 IF content = <<>> /\ toolUse = NoToolUse THEN NullMessage
                 ELSE [null |-> FALSE, role |-> entry.type,
                       content |-> IF content # <<>> THEN content
                                   ELSE <<"[", toolUse.name, "]">>,
                       timestamp |-> entry.timestamp, uuid |-> entry.uuid,
                       toolUse |-> toolUse]
         IN Message(IF entry.message.t = "string" THEN entry.message.s
                    ELSE Join(TextBlocks(entry.message.blocks), <<"\n", "\n">>),
                    IF entry.message.t = "array"
                    THEN LastToolUse(entry.message.blocks, NoToolUse)
                    ELSE NoToolUse)

\* new TranscriptWatcher(agentId, transcriptPath, isWsl)
\* (`skipped` is history: the indexes of the lines a poll failed to parse)
NewWatcher(agentId, transcriptPath, isWsl) ==
    [agentId |-> agentId, transcriptPath |-> transcriptPath, isWsl |-> isWsl,
     lastLineCount |-> 0, seenUuids |-> {}, watchInterval |-> FALSE,
     starting |-> FALSE, reads |-> EmptyBag, skipped |-> {}]

\* a processEntry without the seen-check
ProcessEntryNoDedup(w, entry) ==
    LET w1 == [w EXCEPT !.seenUuids = @ \cup {entry.uuid}]
        Emit(message) == [w |-> w1, out |-> IF message.null THEN <<>> ELSE <<message>>]
    IN IF entry.type # "user" /\ entry.type # "assistant"
       THEN [w |-> w1, out |-> <<>>]
       ELSE Emit(ParseMessage(entry))

\* a processEntry that marks an id as seen only when nothing is emitted for it
ProcessEntryNoMark(w, entry) ==
    IF entry.uuid \in w.seenUuids THEN [w |-> w, out |-> <<>>]
    ELSE LET w1 == [w EXCEPT !.seenUuids = @ \cup {entry.uuid}]
             Emit(message) == IF message.null THEN [w |-> w1, out |-> <<>>]
                              ELSE [w |-> w, out |-> <<message>>]
         IN IF entry.type # "user" /\ entry.type # "assistant"
            THEN [w |-> w1, out |-> <<>>]
            ELSE Emit(ParseMessage(entry))

\* processEntry: the watcher after the entry, and the 'message' events emitted
ProcessEntry(w, entry) ==
    IF entry.uuid \in w.seenUuids THEN [w |-> w, out |-> <<>>]
    ELSE LET w1 == [w EXCEPT !.seenUuids = @ \cup {entry.uuid}]
             Emit(message) == [w |-> w1, out |-> IF message.null THEN <<>> ELSE <<message>>]
         IN IF entry.type # "user" /\ entry.type # "assistant"
            THEN [w |-> w1, out |-> <<>>]
            ELSE Emit(ParseMessage(entry))

\* content.trim().split('\n').filter(line => line.trim())
NonBlank(line) == line.kind # "blank"
FileLines(content) == SelectSeq(content, NonBlank)

\* the loop of readNewEntries over lines[i .. ], malformed lines skipped
RECURSIVE ProcessFrom(_, _, _)
ProcessFrom(w, lines, i) ==
    IF i > Len(lines) THEN [w |-> w, out |-> <<>>]
    ELSE LET Rest(r, rest) == [w |-> rest.w, out |-> r.out \o rest.out]
             Then(r) == Rest(r, ProcessFrom(r.w, lines, i + 1))
         IN Then(IF lines[i].kind = "json" THEN ProcessEntry(w, lines[i])
                 ELSE [w |-> w, out |-> <<>>])

\* A read of the log: it fails when the file is absent
NoFile == [exists |-> FALSE, content |-> <<>>]
ReadFile(path) == files[path]

\* a readNewEntries that starts over from the first line after a failed read
ReadNewEntriesReset(w, read) ==
    IF ~read.exists THEN [w |-> [w EXCEPT !.lastLineCount = 0], out |-> <<>>]
    ELSE LET lines == FileLines(read.content)
             Done(r) == [w |-> [r.w EXCEPT !.lastLineCount = Len(lines)], out |-> r.out]
         IN Done(ProcessFrom(w, lines, w.lastLineCount + 1))

\* readNewEntries once its read has answered with `read`
ReadNewEntries(w, read) ==
    IF ~read.exists THEN [w |-> w, out |-> <<>>]
    ELSE LET lines == FileLines(read.content)
             failed  == {k \in (w.lastLineCount + 1)..Len(lines) : lines[k].kind = "bad"}
             Done(r) == [w |-> [r.w EXCEPT !.lastLineCount = Len(lines),
                                           !.skipped = @ \cup failed],
                         out |-> r.out]
         IN Done(ProcessFrom(w, lines, w.lastLineCount + 1))

---------------------------------------------------------------------------
(* AgentManager (src/unnamed/part_007) *)

\* An agent id is a sequence of tokens: `copilot-win-7` is <<"copilot","win","7">>
A1      == <<"a1">>
NoPath  == ""

\* agentId.includes('wsl')
IncludesWsl(agentId) == \E i \in 1..Len(agentId) : agentId[i] = "wsl"

\* toLowerCase on the first part of an id
toLowerCase(t) ==
    CASE t = "Copilot"     -> "copilot"
      [] t = "ANTIGRAVITY" -> "antigravity"
      [] OTHER             -> t

\* an id's startsWith(p) without the lowering
StartsWithExact(agentId, p) == Len(agentId) > 0 /\ agentId[1] = p

\* agentId.toLowerCase().startsWith(p)
StartsWith(agentId, p) == Len(agentId) > 0 /\ toLowerCase(agentId[1]) = p

\* processToAgentId
ProcessToAgentId(process) ==
    <<process.type, IF process.isWsl THEN "wsl" ELSE "win", process.pid>>

\* AgentDetector.processKey
ProcessKey(process) ==
    <<process.type, process.pid, IF process.isWsl THEN "wsl" ELSE "win">>

Ev(type, agentId, payload) == [type |-> type, agentId |-> agentId, payload |-> payload]

\* The manager's own state, threaded through its methods
Manager == [agents |-> agents, ringHistory |-> ringHistory,
            transcriptWatchers |-> transcriptWatchers, nextOid |-> nextOid]

Forward(agentId, out) == [i \in 1..Len(out) |-> Ev("chat_message", agentId, out[i])]

\* startTranscriptWatcher, with startWatching's initial read: a local log is read
\* and processed at once, a WSL log is read by a child process that answers later
StartTranscriptWatcher(M, agentId, transcriptPath, isWsl) ==
    IF MapHas(M.transcriptWatchers, agentId) THEN [M |-> M, events |-> <<>>]
    ELSE LET watcher == NewWatcher(agentId, transcriptPath, isWsl) IN
         IF isWsl
         THEN LET w == [watcher EXCEPT !.starting = TRUE,
                            !.reads = SetToBag({[initial |-> TRUE,
                                                 read |-> ReadFile(transcriptPath)]})]
              IN [M |-> [M EXCEPT !.transcriptWatchers = MapSet(@, agentId, w)],
                  events |-> <<>>]
         ELSE LET Started(r) ==
                      [M |-> [M EXCEPT !.transcriptWatchers =
                                 MapSet(@, agentId, [r.w EXCEPT !.watchInterval = TRUE])],
                       events |-> Forward(agentId, r.out)]
              IN Started(ReadNewEntries(watcher, ReadFile(transcriptPath)))

\* the agent type and name chosen for a new hooks agent
HooksAgentKind(agentId, source) ==
    IF source # ""
    THEN CASE source = "antigravity" -> <<"antigravity", "Antigravity">>
           [] source = "copilot"     -> <<"copilot", "Copilot">>
           [] OTHER                  -> <<"claude-code", "Claude Code">>
    ELSE IF StartsWith(agentId, "antigravity") THEN <<"antigravity", "Antigravity">>
         ELSE IF StartsWith(agentId, "copilot") THEN <<"copilot", "Copilot">>
         ELSE <<"claude-code", "Claude Code">>

\* getOrCreateHooksAgent, the branch that builds and registers a new agent
CreateHooksAgent(M, agentId, transcriptPath, source) ==
    LET isWsl == IncludesWsl(agentId)
        kind  == HooksAgentKind(agentId, source)
        agent == [id |-> agentId,
                  name |-> <<kind[2], IF isWsl THEN " (WSL)" ELSE "">>,
                  type |-> kind[1], status |-> "active", oid |-> M.nextOid,
                  pid |-> "", isWsl |-> isWsl, transcriptPath |-> transcriptPath]
        M1 == [M EXCEPT !.agents = MapSet(@, agentId, agent),
                        !.ringHistory = MapSet(@, agentId, <<>>),
                        !.nextOid = @ + 1]
        Created(st) ==
            [M |-> st.M,
             events |-> <<Ev("agent_connected", agentId, agent)>> \o st.events,
             ret |-> agent]
    IN Created(IF transcriptPath # NoPath
               THEN StartTranscriptWatcher(M1, agentId, transcriptPath, isWsl)
               ELSE [M |-> M1, events |-> <<>>])

\* a get-or-create that builds a new agent on every call
GetOrCreateAlways(M, agentId, transcriptPath, source) ==
    CreateHooksAgent(M, agentId, transcriptPath, source)

\* a getOrCreateHooksAgent that stores the handle of every call that carries one
GetOrCreateOverwrite(M, agentId, transcriptPath, source) ==
    IF ~MapHas(M.agents, agentId)
    THEN CreateHooksAgent(M, agentId, transcriptPath, source)
    ELSE LET agent == MapGet(M.agents, agentId) IN
         IF transcriptPath # NoPath
         THEN LET agent1 == [agent EXCEPT !.transcriptPath = transcriptPath]
                  M1 == [M EXCEPT !.agents = MapSet(@, agentId, agent1)]
                  Updated(st) == [M |-> st.M, events |-> st.events, ret |-> agent1]
              IN Updated(StartTranscriptWatcher(M1, agentId, transcriptPath, agent.isWsl))
         ELSE [M |-> M, events |-> <<>>, ret |-> agent]

\* getOrCreateHooksAgent: the manager after the call, the events emitted, the agent returned
GetOrCreateHooksAgent(M, agentId, transcriptPath, source) ==
    IF ~MapHas(M.agents, agentId)
    THEN CreateHooksAgent(M, agentId, transcriptPath, source)
    ELSE LET agent == MapGet(M.agents, agentId) IN
         IF transcriptPath # NoPath /\ agent.transcriptPath = NoPath
         THEN LET agent1 == [agent EXCEPT !.transcriptPath = transcriptPath]
                  M1 == [M EXCEPT !.agents = MapSet(@, agentId, agent1)]
                  Updated(st) == [M |-> st.M, events |-> st.events, ret |-> agent1]
              IN Updated(StartTranscriptWatcher(M1, agentId, transcriptPath, agent.isWsl))
         ELSE [M |-> M, events |-> <<>>, ret |-> agent]

\* a recordActivity that drops the newest entry beyond the capacity
RecordActivityPop(M, agentId, content) ==
    LET old     == IF MapHas(M.ringHistory, agentId)
                   THEN MapGet(M.ringHistory, agentId) ELSE <<>>
        pushed  == Append(old, content)
        history == IF Len(pushed) > 100 THEN SubSeq(pushed, 1, 100) ELSE pushed
    IN [M EXCEPT !.ringHistory = MapSet(@, agentId, history)]

\* recordActivity
RecordActivity(M, agentId, content) ==
    LET old     == IF MapHas(M.ringHistory, agentId)
                   THEN MapGet(M.ringHistory, agentId) ELSE <<>>
        pushed  == Append(old, content)
        history == IF Len(pushed) > 100 THEN Tail(pushed) ELSE pushed
    IN [M EXCEPT !.ringHistory = MapSet(@, agentId, history)]

\* getActivityHistory
GetActivityHistory(M, agentId) ==
    IF MapHas(M.ringHistory, agentId) THEN MapGet(M.ringHistory, agentId) ELSE <<>>

\* getAgents / getAgent
GetAgents(M) == MapValues(M.agents)
HasAgent(M, id) == MapHas(M.agents, id)

\* an 'agent_detected' listener that registers the process whatever the registry holds
OnAgentDetectedAlways(M, process) ==
    LET id == ProcessToAgentId(process)
        agent == [id |-> id,
                  name |-> <<process.type, IF process.isWsl THEN " (WSL)" ELSE "",
                             " - PID ", process.pid>>,
                  type |-> process.type, status |-> "active", oid |-> M.nextOid,
                  pid |-> process.pid, isWsl |-> process.isWsl,
                  transcriptPath |-> NoPath]
    IN [M |-> [M EXCEPT !.agents = MapSet(@, id, agent),
                        !.ringHistory = MapSet(@, id, <<>>),
                        !.nextOid = @ + 1],
        events |-> <<Ev("agent_connected", id, agent)>>]

\* detector 'agent_detected' listener
OnAgentDetected(M, process) ==
    LET id == ProcessToAgentId(process) IN
    IF ~MapHas(M.agents, id)
    THEN LET agent == [id |-> id,
                       name |-> <<process.type, IF process.isWsl THEN " (WSL)" ELSE "",
                                  " - PID ", process.pid>>,
                       type |-> process.type, status |-> "active", oid |-> M.nextOid,
                       pid |-> process.pid, isWsl |-> process.isWsl,
                       transcriptPath |-> NoPath]
         IN [M |-> [M EXCEPT !.agents = MapSet(@, id, agent),
                             !.ringHistory = MapSet(@, id, <<>>),
                             !.nextOid = @ + 1],
             events |-> <<Ev("agent_connected", id, agent)>>]
    ELSE [M |-> M, events |-> <<>>]

\* detector 'agent_terminated' listener
OnAgentTerminated(M, process) ==
    LET id == ProcessToAgentId(process) IN
    IF MapHas(M.agents, id)
    THEN [M |-> [M EXCEPT !.agents = MapDelete(@, id)],
          events |-> <<Ev("agent_disconnected", id, <<>>)>>]
    ELSE [M |-> M, events |-> <<>>]

---------------------------------------------------------------------------
(* AgentDetector (src/unnamed/part_006) *)

\* scan, first loop: processes not known yet are stored and announced
RECURSIVE ScanDetected(_, _)
ScanDetected(known, detected) ==
    IF detected = <<>> THEN [known |-> known, out |-> <<>>]
    ELSE LET process == Head(detected)
             key     == ProcessKey(process)
             fresh   == ~MapHas(known, key)
             rest    == ScanDetected(IF fresh THEN MapSet(known, key, process) ELSE known,
                                     Tail(detected))
         IN [known |-> rest.known,
             out |-> (IF fresh THEN <<[type |-> "agent_detected", process |-> process]>>
                      ELSE <<>>) \o rest.out]

\* scan, second loop: known processes missing from this scan are dropped and announced
ScanTerminated(known, detected) ==
    LET currentKeys == {ProcessKey(detected[i]) : i \in 1..Len(detected)}
        gone(e)     == e.k \notin currentKeys
        stay(e)     == e.k \in currentKeys
        dropped     == SelectSeq(known, gone)
    IN [known |-> SelectSeq(known, stay),
        out |-> [i \in 1..Len(dropped) |->
                    [type |-> "agent_terminated", process |-> dropped[i].v]]]

\* the events of one scan whose process listing answered `detected`
ScanEvents(known, detected) ==
    LET d == ScanDetected(known, detected)
        t == ScanTerminated(d.known, detected)
    IN [known |-> t.known, out |-> d.out \o t.out]

\* the manager's detector listeners applied to the scan's events in order
RECURSIVE DetectorListeners(_, _)
DetectorListeners(M, devs) ==
    IF devs = <<>> THEN [M |-> M, events |-> <<>>]
    ELSE LET r    == IF Head(devs).type = "agent_detected"
                     THEN OnAgentDetected(M, Head(devs).process)
                     ELSE OnAgentTerminated(M, Head(devs).process)
             rest == DetectorListeners(r.M, Tail(devs))
         IN [M |-> rest.M, events |-> r.events \o rest.events]

---------------------------------------------------------------------------
(* WebSocketHandler (src/unnamed/part_013) *)

MAX_HISTORY      == 50

\* a chat history capped like the activity history
ChatCapOfActivity == MAX_HISTORY

MAX_CHAT_HISTORY == 200

Frame(type, agentId, payload, timestamp) ==
    [type |-> type, agentId |-> agentId, payload |-> payload, timestamp |-> timestamp]

\* a send that writes the frame to every open socket
SendToAll(fr, ws, message) ==
    [o \in DOMAIN fr |-> IF readyState[o] = "OPEN" THEN Append(fr[o], message) ELSE fr[o]]

\* send: a frame is written only to a socket that is OPEN
\* a send that does not look at the state of the socket
SendAlways(fr, ws, message) == [fr EXCEPT ![ws] = Append(@, message)]

Send(fr, ws, message) ==
    IF readyState[ws] = "OPEN" THEN [fr EXCEPT ![ws] = Append(@, message)] ELSE fr

\* a broadcast to the sockets that subscribed to the agent of the frame
BroadcastSubscribed(fr, message) ==
    [ws \in DOMAIN fr |->
        IF ws \in clients /\ MapHas(subscriptions, ws)
                          /\ message.agentId \in MapGet(subscriptions, ws)
        THEN Send(fr, ws, message)[ws] ELSE fr[ws]]

\* a broadcast that stops after the first socket of `clients`
BroadcastOne(fr, message) ==
    [ws \in DOMAIN fr |->
        IF ws \in clients /\ \A o \in clients : ws <= o
        THEN Send(fr, ws, message)[ws] ELSE fr[ws]]

\* broadcast: send to every socket of `clients`
Broadcast(fr, message) ==
    [ws \in DOMAIN fr |-> IF ws \in clients THEN Send(fr, ws, message)[ws] ELSE fr[ws]]

\* a push that drops the newest entry beyond `cap` (pop instead of shift)
PushCappedPop(history, entry, cap) ==
    LET pushed == Append(history, entry)
    IN IF Len(pushed) > cap THEN SubSeq(pushed, 1, cap) ELSE pushed

\* push with the oldest entry shifted out beyond `cap`
PushCapped(history, entry, cap) ==
    LET pushed == Append(history, entry)
    IN IF Len(pushed) > cap THEN Tail(pushed) ELSE pushed

ChatFrame(agentId, message) ==
    Frame("chat_message", agentId,
          [role |-> message.role, content |-> message.content,
           timestamp |-> message.timestamp, uuid |-> message.uuid], 0)

\* LeashWebSocketClient (android): the client's mirror of the server, the
\* per-agent activity list and chat list
emptyMirror == [activitiesPerAgent |-> <<>>, chatMessagesPerAgent |-> <<>>]

takeLast(s, n) == IF Len(s) > n THEN SubSeq(s, Len(s) - n + 1, Len(s)) ELSE s

\* handleActivity: the activity is appended to the list of its agent
handleActivity(mirror, json) ==
    LET activity == [agentId |-> json.agentId, content |-> json.payload,
                     timestamp |-> json.timestamp]
        old == IF MapHas(mirror.activitiesPerAgent, activity.agentId)
               THEN MapGet(mirror.activitiesPerAgent, activity.agentId) ELSE <<>>
    IN [mirror EXCEPT !.activitiesPerAgent =
            MapSet(@, activity.agentId, takeLast(Append(old, activity), 100))]

\* handleChatMessage: the message (role, content, timestamp) is appended to
\* the list of its agent
handleChatMessage(mirror, json) ==
    LET chatMessage == [role |-> json.payload.role, content |-> json.payload.content,
                        timestamp |-> json.payload.timestamp]
        old == IF MapHas(mirror.chatMessagesPerAgent, json.agentId)
               THEN MapGet(mirror.chatMessagesPerAgent, json.agentId) ELSE <<>>
    IN [mirror EXCEPT !.chatMessagesPerAgent =
            MapSet(@, json.agentId, takeLast(Append(old, chatMessage), 200))]

\* handleAgentDisconnected: the activities of the agent are dropped
handleAgentDisconnected(mirror, json) ==
    [mirror EXCEPT !.activitiesPerAgent = MapDelete(@, json.agentId)]

\* handleMessage, as far as the two lists go
handleMessage(mirror, json) ==
    CASE json.type = "activity"           -> handleActivity(mirror, json)
      [] json.type = "chat_message"       -> handleChatMessage(mirror, json)
      [] json.type = "agent_disconnected" -> handleAgentDisconnected(mirror, json)
      [] OTHER                            -> mirror

\* disconnect(): the activities are cleared, the chat lists are kept
disconnect(mirror) == [mirror EXCEPT !.activitiesPerAgent = <<>>]

\* onMessage for every frame of one socket, in the order written
RECURSIVE Received(_, _)
Received(mirror, r) ==
    IF r = <<>> THEN mirror ELSE Received(handleMessage(mirror, Head(r)), Tail(r))

\* The relay's own state, threaded through its event handlers
Relay == [activityHistory |-> activityHistory, chatHistory |-> chatHistory,
          frames |-> frames, clock |-> clock]

\* setupEventHandlers: the handler of one AgentManager event
OnEvent(S, ev) ==
    CASE ev.type = "agent_connected" ->
            [S EXCEPT !.frames = Broadcast(@, Frame("agent_connected", ev.agentId, ev.payload, 0))]
      [] ev.type = "agent_disconnected" ->
            [S EXCEPT !.frames = Broadcast(@, Frame("agent_disconnected", ev.agentId, <<>>, 0)),
                      !.activityHistory = MapDelete(@, ev.agentId)]
      [] ev.type = "activity" ->
            LET timestamp == S.clock + 1
                old       == IF MapHas(S.activityHistory, ev.agentId)
                             THEN MapGet(S.activityHistory, ev.agentId) ELSE <<>>
                history   == PushCapped(old, [content |-> ev.payload, timestamp |-> timestamp],
                                        MAX_HISTORY)
            IN [S EXCEPT !.clock = timestamp,
                         !.activityHistory = MapSet(@, ev.agentId, history),
                         !.frames = Broadcast(@, Frame("activity", ev.agentId, ev.payload, timestamp))]
      [] ev.type = "status_change" ->
            [S EXCEPT !.frames = Broadcast(@, Frame("status_change", ev.agentId, ev.payload, 0))]
      [] ev.type = "chat_message" ->
            LET old     == IF MapHas(S.chatHistory, ev.agentId)
                           THEN MapGet(S.chatHistory, ev.agentId) ELSE <<>>
                history == PushCapped(old, ev.payload, MAX_CHAT_HISTORY)
            IN [S EXCEPT !.chatHistory = MapSet(@, ev.agentId, history),
                         !.frames = Broadcast(@, ChatFrame(ev.agentId, ev.payload))]

\* the events of one callback, handled in the order they were emitted
RECURSIVE OnEvents(_, _)
OnEvents(S, evs) ==
    IF evs = <<>> THEN S ELSE OnEvents(OnEvent(S, Head(evs)), Tail(evs))

\* onConnection, activity replay: every stored activity, agent by agent
RECURSIVE ActivityReplay(_)
ActivityReplay(m) ==
    IF m = <<>> THEN <<>>
    ELSE LET e == Head(m) IN
         [i \in 1..Len(e.v) |-> Frame("activity", e.k, e.v[i].content, e.v[i].timestamp)]
         \o ActivityReplay(Tail(m))

\* onConnection, chat replay: every stored chat message, agent by agent
RECURSIVE ChatReplay(_)
ChatReplay(m) ==
    IF m = <<>> THEN <<>>
    ELSE LET e == Head(m) IN
         [i \in 1..Len(e.v) |-> ChatFrame(e.k, e.v[i])] \o ChatReplay(Tail(m))

\* a replay that sends the chat history before the activity history
ConnectionFramesChatFirst ==
    <<Frame("agents_list", <<>>, GetAgents(Manager), 0)>>
    \o ChatReplay(chatHistory) \o ActivityReplay(activityHistory)

\* the frames onConnection sends to the new socket, in order
ConnectionFrames ==
    <<Frame("agents_list", <<>>, GetAgents(Manager), 0)>>
    \o ActivityReplay(activityHistory) \o ChatReplay(chatHistory)

---------------------------------------------------------------------------
(* REST routes (src/unnamed/part_008) *)

NoData == [has |-> FALSE, prompt |-> <<>>, tool_name |-> <<>>, name |-> <<>>,
           error |-> FALSE, message |-> <<>>, content |-> <<>>,
           assistant_response |-> <<>>, transcript_path |-> NoPath]

HookBody(type, eventType, agentId, data) ==
    [type |-> type, eventType |-> eventType, agentId |-> agentId, data |-> data]

\* POST /hooks: the activity message chosen for the event type (the pictograph
\* that opens each message is written as a word of the prefix token)
\* a formatter that names the event, whatever its type
HookEventName(eventType, data) == <<eventType>>

FormatHookActivity(eventType, data) ==
    CASE eventType = "SessionStart" -> <<"Session started">>
      [] eventType = "UserPromptSubmit" ->
            <<"User: ">> \o OrElse(Substring(data.prompt, 100), <<"prompt">>)
      [] eventType = "PreToolUse" ->
            <<"tool: ">> \o OrElse(data.tool_name, OrElse(data.name, <<"tool">>))
      [] eventType = "PostToolUse" ->
            <<IF data.error THEN "failed " ELSE "ok ">>
            \o OrElse(data.tool_name, OrElse(data.name, <<"tool">>))
      [] eventType = "Notification" ->
            <<"notice: ">> \o OrElse(data.message, OrElse(data.content, <<"notification">>))
      [] eventType = "Stop" ->
            IF data.assistant_response # <<>>
            THEN <<"Claude: ">> \o Substring(data.assistant_response, 150)
                 \o (IF Len(data.assistant_response) > 150 THEN <<"...">> ELSE <<>>)
            ELSE <<"Response complete">>
      [] OTHER -> <<eventType>>

\* the state after a callback that left the manager as M and emitted evs
Commit(M, evs) ==
    LET Delivered(S) ==
            /\ activityHistory' = S.activityHistory
            /\ chatHistory' = S.chatHistory
            /\ frames' = S.frames
            /\ clock' = S.clock
    IN /\ agents' = M.agents
       /\ ringHistory' = M.ringHistory
       /\ transcriptWatchers' = M.transcriptWatchers
       /\ nextOid' = M.nextOid
       /\ Delivered(OnEvents(Relay, evs))
       /\ emitted' = emitted \o evs

\* POST /hooks
HookPost(body) ==
    IF body.type # "hook_event"
    THEN /\ last' = [op |-> "POST /hooks", arg |-> body, status |-> 400, ret |-> <<>>]
         /\ UNCHANGED <<agents, ringHistory, transcriptWatchers, knownProcesses, nextOid,
                        clients, readyState, activityHistory, chatHistory, frames, clock,
                        messageQueues, scripts, files, emitted, opLog,
                   subscriptions, calls, commands>>
    ELSE LET Handle(activityMessage, r) ==
                 /\ Commit(RecordActivity(r.M, r.ret.id, activityMessage),
                           r.events \o <<Ev("activity", r.ret.id, activityMessage)>>)
                 /\ last' = [op |-> "POST /hooks", arg |-> body, status |-> 200,
                             ret |-> activityMessage]
         IN /\ Handle(FormatHookActivity(body.eventType, body.data),
                      GetOrCreateHooksAgent(Manager, body.agentId,
                                            body.data.transcript_path, ""))
            /\ UNCHANGED <<knownProcesses, clients, readyState, messageQueues, scripts, files, opLog,
                   subscriptions, calls, commands>>

\* a getAllMessages that reads as a poll reads: only the ids not seen yet
getAllMessagesOnlyNew(w, read) == [w |-> w, out |-> ReadNewEntries(w, read).out]

\* TranscriptWatcher.getAllMessages: the messages of the log as it is read;
\* the watcher's fields are not written
getAllMessages(w, read) ==
    IF ~read.exists THEN [w |-> w, out |-> <<>>]
    ELSE LET lines == FileLines(read.content)
             Parsed(entry) ==
                 IF entry.kind = "json" /\ entry.type \in {"user", "assistant"}
                 THEN IF ParseMessage(entry).null THEN <<>> ELSE <<ParseMessage(entry)>>
                 ELSE <<>>
         IN [w |-> w, out |-> Flatten([i \in 1..Len(lines) |-> Parsed(lines[i])])]

\* AgentManager.getTranscriptMessages: a watcher of its own is built for the call
getTranscriptMessages(M, agentId) ==
    IF ~HasAgent(M, agentId) THEN [M |-> M, out |-> <<>>]
    ELSE LET agent == MapGet(M.agents, agentId)
             Got(r) == [M |-> M, out |-> r.out]
         IN IF agent.transcriptPath = NoPath THEN [M |-> M, out |-> <<>>]
            ELSE Got(getAllMessages(NewWatcher(agentId, agent.transcriptPath, agent.isWsl),
                                    ReadFile(agent.transcriptPath)))

\* a call of getTranscriptMessages
GetTranscriptMessages(agentId) ==
    LET Called(r) ==
            /\ agents' = r.M.agents
            /\ ringHistory' = r.M.ringHistory
            /\ transcriptWatchers' = r.M.transcriptWatchers
            /\ nextOid' = r.M.nextOid
            /\ last' = [op |-> "getTranscriptMessages", arg |-> agentId,
                        status |-> 0, ret |-> r.out]
    IN /\ Called(getTranscriptMessages(Manager, agentId))
       /\ UNCHANGED <<knownProcesses, clients, readyState, activityHistory, chatHistory,
                      frames, clock, messageQueues, scripts, files, emitted, opLog,
                      subscriptions, calls, commands>>

\* a call of getOrCreateHooksAgent with a source, as the manager offers it to
\* its callers, and the delivery of the event it emits
GetOrCreate(agentId, transcriptPath, source) ==
    LET Called(r) == Commit(r.M, r.events)
    IN /\ Called(GetOrCreateHooksAgent(Manager, agentId, transcriptPath, source))
       /\ last' = [op |-> "getOrCreateHooksAgent", arg |-> <<agentId, source>>,
                   status |-> 0, ret |-> <<>>]
       /\ UNCHANGED <<knownProcesses, clients, readyState, messageQueues, scripts, files,
                      opLog, subscriptions, calls, commands>>

\* GET /agents/:id: the response
GetAgentResponse(M, id) ==
    IF ~HasAgent(M, id)
    THEN [status |-> 404, activity |-> <<>>]
    ELSE [status |-> 200, activity |-> GetActivityHistory(M, id)]

\* GET /agents/:id
GetAgent(id) ==
    /\ last' = [op |-> "GET /agents/:id", arg |-> id,
                status |-> GetAgentResponse(Manager, id).status,
                ret |-> GetAgentResponse(Manager, id).activity]
    /\ UNCHANGED <<agents, ringHistory, transcriptWatchers, knownProcesses, nextOid,
                   clients, readyState, activityHistory, chatHistory, frames, clock,
                   messageQueues, scripts, files, emitted, opLog,
                   subscriptions, calls, commands>>

\* JSON.stringify of an array content: the blocks between brackets
Stringify(blocks) ==
    <<"[">> \o Flatten([i \in 1..Len(blocks) |->
                          <<"{", blocks[i].type>> \o blocks[i].text \o <<"}">>])
           \o <<"]">>

\* readTranscript's loop body: the messages one line of the log adds.  An
\* assistant content that is a string has no filter(): the throw is caught and
\* the line skipped.
TranscriptLine(entry) ==
    IF entry.kind # "json" THEN <<>>
    ELSE IF entry.type = "user"
         THEN IF entry.message.t = "string" /\ entry.message.s # <<>>
              THEN <<[role |-> "user", content |-> entry.message.s,
                      timestamp |-> entry.timestamp]>>
              ELSE IF entry.message.t = "array"
                   THEN <<[role |-> "user", content |-> Stringify(entry.message.blocks),
                           timestamp |-> entry.timestamp]>>
                   ELSE <<>>
         ELSE IF entry.type = "assistant" /\ entry.message.t = "array"
              THEN LET isText(b)   == b.type = "text"
                       texts       == SelectSeq(entry.message.blocks, isText)
                       textContent == Flatten([i \in 1..Len(texts) |-> texts[i].text])
                   IN IF textContent # <<>>
                      THEN <<[role |-> "assistant", content |-> textContent,
                              timestamp |-> entry.timestamp]>>
                      ELSE <<>>
              ELSE <<>>

\* readTranscript: a log that cannot be read answers no message
readTranscript(file) ==
    IF ~file.exists THEN <<>>
    ELSE Flatten([i \in 1..Len(file.content) |-> TranscriptLine(file.content[i])])

\* content.includes('User:')
IncludesUser(content) == \E i \in 1..Len(content) : content[i] = "User: "

\* GET /agents/:id/chat, the handler registered first: the activity ring as
\* messages, each stamped with the seconds before now
ChatOfActivity(M, id) ==
    IF ~HasAgent(M, id) THEN [status |-> 404, messages |-> <<>>]
    ELSE LET activity == GetActivityHistory(M, id) IN
         [status |-> 200,
          messages |-> [index \in 1..Len(activity) |->
                          [role |-> IF IncludesUser(activity[index]) THEN "user"
                                    ELSE "assistant",
                           content |-> activity[index],
                           timestamp |-> Len(activity) - (index - 1)]]]

\* GET /agents/:id/chat, the handler registered second: the transcript replay
ChatOfTranscript(M, id) ==
    IF ~HasAgent(M, id) THEN [status |-> 404, messages |-> <<>>]
    ELSE IF MapGet(M.agents, id).transcriptPath = NoPath
         THEN [status |-> 200, messages |-> <<>>]
         ELSE [status |-> 200,
               messages |-> readTranscript(ReadFile(MapGet(M.agents, id).transcriptPath))]

\* the router runs the handlers of a path in the order registered, and a
\* handler that answers without calling next() ends the request
GetChatResponse(M, id) == ChatOfActivity(M, id)

\* GET /agents/:id/chat
GetChat(id) ==
    /\ last' = [op |-> "GET /agents/:id/chat", arg |-> id,
                status |-> GetChatResponse(Manager, id).status,
                ret |-> GetChatResponse(Manager, id).messages]
    /\ UNCHANGED <<agents, ringHistory, transcriptWatchers, knownProcesses, nextOid,
                   clients, readyState, activityHistory, chatHistory, frames, clock,
                   messageQueues, scripts, files, emitted, opLog,
                   subscriptions, calls, commands>>

SendBody(message, isString, instant) ==
    [message |-> message, isString |-> isString, instant |-> instant]

\* `"${message.substring(0, 50)}${message.length > 50 ? '...' : ''}"`
Preview(message) ==
    <<"\"">> \o Substring(message, 50)
    \o (IF Len(message) > 50 THEN <<"...">> ELSE <<>>) \o <<"\"">>

QueueOf(id) == IF MapHas(messageQueues, id) THEN MapGet(messageQueues, id) ELSE <<>>

\* a push that puts the message at the front
QueueUnshift(queue, message) == <<message>> \o queue

\* messageQueues.get(agent.id)!.push(message)
QueuePush(queue, message) == Append(queue, message)

\* a pop from the newest end
QueuePop(queue) ==
    [message |-> queue[Len(queue)], rest |-> SubSeq(queue, 1, Len(queue) - 1)]

\* queue.shift(): the oldest message and what remains
QueueShift(queue) == [message |-> Head(queue), rest |-> Tail(queue)]

\* One HTTP request to a route.  ws is the socket whose command made the relay
\* send it to itself, 0 for a request of an outside client; status, method and
\* queueSize are the answer once the route has given it.
NewCall(ws, kind, agentId, body) ==
    [ws |-> ws, kind |-> kind, agentId |-> agentId, message |-> body.message,
     isString |-> body.isString, instant |-> body.instant, stage |-> "request",
     status |-> 0, method |-> "", queueSize |-> 0]

\* res.json / res.status(..).json: the answer travels back to the relay when
\* the request was the relay's own
Answer(cs, call, status, method, queueSize) ==
    IF call.ws = 0 THEN cs
    ELSE Append(cs, [call EXCEPT !.stage = "response", !.status = status,
                                 !.method = method, !.queueSize = queueSize])

\* POST /agents/:id/send handling the request `call`; `cs` are the other
\* requests and answers in flight
SendRoute(call, cs) ==
    LET id == call.agentId IN
    IF ~HasAgent(Manager, id)
    THEN /\ last' = [op |-> "POST /send", arg |-> id, status |-> 404, ret |-> <<>>]
         /\ calls' = Answer(cs, call, 404, "", 0)
         /\ UNCHANGED <<agents, ringHistory, transcriptWatchers, knownProcesses, nextOid,
                        clients, readyState, activityHistory, chatHistory, frames, clock,
                        messageQueues, scripts, files, emitted, opLog,
                        subscriptions, commands>>
    ELSE IF call.message = <<>> \/ ~call.isString
    THEN /\ last' = [op |-> "POST /send", arg |-> id, status |-> 400, ret |-> <<>>]
         /\ calls' = Answer(cs, call, 400, "", 0)
         /\ UNCHANGED <<agents, ringHistory, transcriptWatchers, knownProcesses, nextOid,
                        clients, readyState, activityHistory, chatHistory, frames, clock,
                        messageQueues, scripts, files, emitted, opLog,
                        subscriptions, commands>>
    ELSE IF call.instant
    THEN /\ scripts' = Append(scripts, [call EXCEPT !.stage = "script"])
         /\ last' = [op |-> "POST /send", arg |-> id, status |-> 0, ret |-> <<>>]
         /\ calls' = cs
         /\ UNCHANGED <<agents, ringHistory, transcriptWatchers, knownProcesses, nextOid,
                        clients, readyState, activityHistory, chatHistory, frames, clock,
                        messageQueues, files, emitted, opLog,
                        subscriptions, commands>>
    ELSE LET queue     == QueuePush(QueueOf(id), call.message)
             queueSize == Len(queue)
             activityMessage ==
                 <<"Message queued (", ToString(queueSize), " in queue): ">>
                 \o Preview(call.message)
             M2 == RecordActivity(Manager, id, activityMessage)
         IN /\ messageQueues' = MapSet(messageQueues, id, queue)
            /\ Commit(M2, <<Ev("activity", id, activityMessage)>>)
            /\ opLog' = Append(opLog, [op |-> "enqueue", id |-> id, hasMessage |-> TRUE,
                                       message |-> call.message, size |-> queueSize])
            /\ last' = [op |-> "POST /send", arg |-> id, status |-> 200,
                        ret |-> <<"queued", ToString(queueSize)>>]
            /\ calls' = Answer(cs, call, 200, "queued", queueSize)
            /\ UNCHANGED <<knownProcesses, clients, readyState, scripts, files,
                           subscriptions, commands>>

\* POST /agents/:id/send from an outside client
SendPost(id, body) == SendRoute(NewCall(0, "send", id, body), calls)

\* POST /agents/:id/interrupt handling the request `call`
InterruptRoute(call, cs) ==
    IF ~HasAgent(Manager, call.agentId)
    THEN /\ last' = [op |-> "POST /interrupt", arg |-> call.agentId, status |-> 404,
                     ret |-> <<>>]
         /\ calls' = Answer(cs, call, 404, "", 0)
         /\ UNCHANGED <<agents, ringHistory, transcriptWatchers, knownProcesses, nextOid,
                        clients, readyState, activityHistory, chatHistory, frames, clock,
                        messageQueues, scripts, files, emitted, opLog,
                        subscriptions, commands>>
    ELSE /\ scripts' = Append(scripts, [call EXCEPT !.stage = "script"])
         /\ last' = [op |-> "POST /interrupt", arg |-> call.agentId, status |-> 0,
                     ret |-> <<>>]
         /\ calls' = cs
         /\ UNCHANGED <<agents, ringHistory, transcriptWatchers, knownProcesses, nextOid,
                        clients, readyState, activityHistory, chatHistory, frames, clock,
                        messageQueues, files, emitted, opLog,
                        subscriptions, commands>>

\* POST /agents/:id/interrupt from an outside client
InterruptPost(id) == InterruptRoute(NewCall(0, "interrupt", id, SendBody(<<>>, TRUE, FALSE)), calls)

\* GET /agents/:id/queue
Dequeue(id) ==
    LET queue == QueueOf(id) IN
    /\ IF Len(queue) > 0
       THEN LET sh == QueueShift(queue) IN
            /\ messageQueues' = MapSet(messageQueues, id, sh.rest)
            /\ opLog' = Append(opLog, [op |-> "dequeue", id |-> id, hasMessage |-> TRUE,
                                       message |-> sh.message, size |-> Len(sh.rest)])
            /\ last' = [op |-> "GET /queue", arg |-> id, status |-> 200,
                        ret |-> sh.message]
       ELSE /\ messageQueues' = messageQueues
            /\ opLog' = Append(opLog, [op |-> "dequeue", id |-> id, hasMessage |-> FALSE,
                                       message |-> <<>>, size |-> 0])
            /\ last' = [op |-> "GET /queue", arg |-> id, status |-> 200, ret |-> <<>>]
    /\ UNCHANGED <<agents, ringHistory, transcriptWatchers, knownProcesses, nextOid,
                   clients, readyState, activityHistory, chatHistory, frames, clock,
                   scripts, files, emitted,
                   subscriptions, calls, commands>>

\* a peek that takes the first message out of the queue it shows
PeekShift(id) ==
    LET queue == QueueOf(id) IN
    /\ opLog' = Append(opLog, [op |-> "peek", id |-> id, hasMessage |-> Len(queue) > 0,
                               message |-> queue, size |-> Len(queue)])
    /\ last' = [op |-> "GET /queue/peek", arg |-> id, status |-> 200, ret |-> queue]
    /\ messageQueues' = IF Len(queue) > 0 THEN MapSet(messageQueues, id, Tail(queue))
                        ELSE messageQueues
    /\ UNCHANGED <<agents, ringHistory, transcriptWatchers, knownProcesses, nextOid,
                   clients, readyState, activityHistory, chatHistory, frames, clock,
                   scripts, files, emitted,
                   subscriptions, calls, commands>>

\* GET /agents/:id/queue/peek
Peek(id) ==
    LET queue == QueueOf(id) IN
    /\ opLog' = Append(opLog, [op |-> "peek", id |-> id, hasMessage |-> Len(queue) > 0,
                               message |-> queue, size |-> Len(queue)])
    /\ last' = [op |-> "GET /queue/peek", arg |-> id, status |-> 200, ret |-> queue]
    /\ UNCHANGED <<agents, ringHistory, transcriptWatchers, knownProcesses, nextOid,
                   clients, readyState, activityHistory, chatHistory, frames, clock,
                   messageQueues, scripts, files, emitted,
                   subscriptions, calls, commands>>

\* a completion that falls back on the queue of the agent
ScriptDoneQueues(i, ok) ==
    /\ i \in 1..Len(scripts)
    /\ scripts' = RemoveAt(scripts, i)
    /\ messageQueues' = MapSet(messageQueues, scripts[i].agentId,
                               QueuePush(QueueOf(scripts[i].agentId), scripts[i].message))
    /\ calls' = Answer(calls, scripts[i], IF ok THEN 200 ELSE 500, "", 0)
    /\ last' = [op |-> "POST /send", arg |-> scripts[i].agentId,
                status |-> IF ok THEN 200 ELSE 500, ret |-> <<>>]
    /\ UNCHANGED <<agents, ringHistory, transcriptWatchers, knownProcesses, nextOid,
                   clients, readyState, activityHistory, chatHistory, frames, clock,
                   files, emitted, opLog, subscriptions, commands>>

\* the script of an instant send or of an interrupt ends: the rest of
\* POST /agents/:id/send (instant) and of POST /agents/:id/interrupt, after
\* their await
ScriptDone(i, ok) ==
    /\ i \in 1..Len(scripts)
    /\ scripts' = RemoveAt(scripts, i)
    /\ LET call == scripts[i]
           op   == IF call.kind = "send" THEN "POST /send" ELSE "POST /interrupt" IN
       IF ok
       THEN LET activityMessage ==
                    IF call.kind = "send"
                    THEN <<"Instant message sent: ">> \o Preview(call.message)
                    ELSE <<"Interrupt signal sent">>
                M2 == RecordActivity(Manager, call.agentId, activityMessage)
            IN /\ Commit(M2, <<Ev("activity", call.agentId, activityMessage)>>)
               /\ calls' = Answer(calls, call, 200,
                                  IF call.kind = "send" THEN "instant" ELSE "", 0)
               /\ last' = [op |-> op, arg |-> call.agentId, status |-> 200,
                           ret |-> IF call.kind = "send" THEN <<"instant">>
                                   ELSE <<"interrupt">>]
       ELSE /\ calls' = Answer(calls, call, 500, "", 0)
            /\ last' = [op |-> op, arg |-> call.agentId, status |-> 500, ret |-> <<>>]
            /\ UNCHANGED <<agents, ringHistory, transcriptWatchers, nextOid,
                           activityHistory, chatHistory, frames, clock, emitted>>
    /\ UNCHANGED <<knownProcesses, clients, readyState, messageQueues, files, opLog,
                   subscriptions, commands>>

---------------------------------------------------------------------------
(* WebSocketHandler: commands of the clients *)

\* ClientMessage; an agentId or a message that is absent is the empty text
Command(type, agentId, message, isString, instant) ==
    [type |-> type, agentId |-> agentId, message |-> message,
     isString |-> isString, instant |-> instant]

ErrorFrame(error) == Frame("error", <<>>, error, 0)

\* the message_sent frame built from the answer of POST /agents/:id/send
MessageSentFrame(call) ==
    Frame("message_sent", call.agentId,
          [success |-> TRUE, method |-> call.method,
           hint |-> IF call.method = "instant" THEN <<"Message sent instantly">>
                    ELSE <<"Message queued (",
                           IF call.status = 200 THEN ToString(call.queueSize)
                           ELSE "undefined",
                           " in queue)">>], 0)

InterruptSentFrame(call) ==
    Frame("interrupt_sent", call.agentId,
          [success |-> TRUE, method |-> "", hint |-> <<>>], 0)

\* a validation that does not look the agent up in the registry
ForwardedUnknown(ws, kind, message) ==
    IF message.agentId = <<>> \/ (kind = "send" /\ message.message = <<>>)
    THEN [frames |-> Send(frames, ws, ErrorFrame(<<"Missing agentId">>)),
          calls |-> calls]
    ELSE [frames |-> frames,
          calls |-> Append(calls, NewCall(ws, kind, message.agentId,
                               SendBody(message.message, message.isString,
                                        message.instant)))]

\* handleSendMessage and handleInterrupt up to their first await: the error
\* frame of the validation, or the request the relay sends to its own route
Forwarded(ws, kind, message) ==
    IF message.agentId = <<>> \/ (kind = "send" /\ message.message = <<>>)
    THEN [frames |-> Send(frames, ws, ErrorFrame(IF kind = "send"
                                                 THEN <<"Missing agentId or message">>
                                                 ELSE <<"Missing agentId">>)),
          calls |-> calls]
    ELSE IF ~HasAgent(Manager, message.agentId)
    THEN [frames |-> Send(frames, ws, ErrorFrame(<<"Agent not found">>)),
          calls |-> calls]
    ELSE [frames |-> frames,
          calls |-> Append(calls, NewCall(ws, kind, message.agentId,
                               SendBody(message.message, message.isString,
                                        message.instant)))]

\* the Set of ws in subscriptions after `subscriptions.get(ws)?.add / delete`
Subscribed(ws, agentId, add) ==
    IF ~MapHas(subscriptions, ws) THEN subscriptions
    ELSE MapSet(subscriptions, ws,
                IF add THEN MapGet(subscriptions, ws) \cup {agentId}
                ELSE MapGet(subscriptions, ws) \ {agentId})

\* ws.on('message') and handleMessage; a text that is no JSON, or a type that
\* is none of the five, changes nothing
WsCommand(ws, message) ==
    /\ ws \in clients
    /\ readyState[ws] = "OPEN"
    /\ commands' = Append(commands, [ws |-> ws, message |-> message])
    /\ LET Handled(f, c, subs) ==
               /\ frames' = f
               /\ calls' = c
               /\ subscriptions' = subs
           Routed(r) == Handled(r.frames, r.calls, subscriptions)
       IN CASE message.type = "subscribe" ->
                  Handled(frames, calls, Subscribed(ws, message.agentId, TRUE))
            [] message.type = "unsubscribe" ->
                  Handled(frames, calls, Subscribed(ws, message.agentId, FALSE))
            [] message.type = "list_agents" ->
                  Handled(Send(frames, ws, Frame("agents_list", <<>>, GetAgents(Manager), 0)),
                          calls, subscriptions)
            [] message.type = "send_message" -> Routed(Forwarded(ws, "send", message))
            [] message.type = "interrupt" -> Routed(Forwarded(ws, "interrupt", message))
            [] OTHER -> Handled(frames, calls, subscriptions)
    /\ last' = [op |-> "ws command", arg |-> ws, status |-> 0, ret |-> <<>>]
    /\ UNCHANGED <<agents, ringHistory, transcriptWatchers, knownProcesses, nextOid,
                   clients, readyState, activityHistory, chatHistory, clock,
                   messageQueues, scripts, files, emitted, opLog>>

\* the data of a frame: a text that JSON.parse rejects, or the text of a message
NotJson       == [json |-> FALSE, type |-> ""]
Json(message) == [json |-> TRUE, message |-> message]

\* the catch of the 'message' listener: the error is logged
InvalidMessage(ws, f) ==
    /\ ws \in clients
    /\ readyState[ws] = "OPEN"
    /\ commands' = Append(commands, [ws |-> ws, message |-> NotJson])
    /\ frames' = f
    /\ last' = [op |-> "ws invalid", arg |-> ws, status |-> 0, ret |-> <<>>]
    /\ UNCHANGED <<agents, ringHistory, transcriptWatchers, knownProcesses, nextOid,
                   clients, readyState, activityHistory, chatHistory, clock,
                   messageQueues, scripts, files, emitted, opLog,
                   subscriptions, calls>>

\* a 'message' listener that answers an error to a frame it cannot parse
OnMessageReply(ws, data) ==
    IF data.json THEN WsCommand(ws, data.message)
    ELSE InvalidMessage(ws, Send(frames, ws, Frame("error", <<>>, <<"Invalid message">>, 0)))

\* ws.on('message'): JSON.parse, then handleMessage
OnMessage(ws, data) ==
    IF data.json THEN WsCommand(ws, data.message)
    ELSE InvalidMessage(ws, frames)

\* a request of the relay reaches its route
CallRoute(i) ==
    /\ i \in 1..Len(calls)
    /\ calls[i].stage = "request"
    /\ IF calls[i].kind = "send" THEN SendRoute(calls[i], RemoveAt(calls, i))
       ELSE InterruptRoute(calls[i], RemoveAt(calls, i))

\* a request of the relay fails before any answer (req.on('error')): the
\* handler's catch replies with an error frame
CallFails(i) ==
    /\ i \in 1..Len(calls)
    /\ calls[i].stage = "request"
    /\ calls' = RemoveAt(calls, i)
    /\ frames' = Send(frames, calls[i].ws,
                      ErrorFrame(IF calls[i].kind = "send"
                                 THEN <<"Failed to send message">>
                                 ELSE <<"Failed to send interrupt">>))
    /\ last' = [op |-> "ws failure", arg |-> calls[i].ws, status |-> 0, ret |-> <<>>]
    /\ UNCHANGED <<agents, ringHistory, transcriptWatchers, knownProcesses, nextOid,
                   clients, readyState, activityHistory, chatHistory, clock,
                   messageQueues, scripts, files, emitted, opLog,
                   subscriptions, commands>>

\* the answer of the route has arrived (res.on('end')): the handler replies
\* to the socket of the command
CallAnswered(i) ==
    /\ i \in 1..Len(calls)
    /\ calls[i].stage = "response"
    /\ calls' = RemoveAt(calls, i)
    /\ frames' = Send(frames, calls[i].ws,
                      IF calls[i].kind = "send" THEN MessageSentFrame(calls[i])
                      ELSE InterruptSentFrame(calls[i]))
    /\ last' = [op |-> "ws response", arg |-> calls[i].ws, status |-> calls[i].status,
                ret |-> <<>>]
    /\ UNCHANGED <<agents, ringHistory, transcriptWatchers, knownProcesses, nextOid,
                   clients, readyState, activityHistory, chatHistory, clock,
                   messageQueues, scripts, files, emitted, opLog,
                   subscriptions, commands>>

---------------------------------------------------------------------------
(* Callbacks of the event loop *)

\* a detector scan completes with the process listing `detected`
Scan(detected) ==
    LET Listeners(r) == Commit(r.M, r.events)
        Scanned(d) ==
            /\ knownProcesses' = d.known
            /\ Listeners(DetectorListeners(Manager, d.out))
    IN /\ Scanned(ScanEvents(knownProcesses, detected))
       /\ last' = [op |-> "scan", arg |-> detected, status |-> 0, ret |-> <<>>]
       /\ UNCHANGED <<clients, readyState, messageQueues, scripts, files, opLog,
                   subscriptions, calls, commands>>

\* scan() up to its first await: the listing commands are started and the scan
\* waits for their output. setInterval calls scan() again without waiting for
\* the scan before it.
ScanBegin(detected) ==
    /\ scripts' = Append(scripts, [kind |-> "scan", detected |-> detected, done |-> FALSE])
    /\ last' = [op |-> "scan begin", arg |-> detected, status |-> 0, ret |-> <<>>]
    /\ UNCHANGED <<agents, ringHistory, transcriptWatchers, knownProcesses, nextOid,
                   clients, readyState, activityHistory, chatHistory, frames, clock,
                   messageQueues, files, emitted, opLog, subscriptions, calls, commands>>

\* scan() after its awaits: the listing the scan obtained is compared with the
\* processes known at that moment. The scan stays in the list, marked done.
ScanEnd(i) ==
    LET Listeners(r) == Commit(r.M, r.events)
        Scanned(d) ==
            /\ knownProcesses' = d.known
            /\ Listeners(DetectorListeners(Manager, d.out))
    IN /\ scripts[i].kind = "scan"
       /\ ~scripts[i].done
       /\ Scanned(ScanEvents(knownProcesses, scripts[i].detected))
       /\ scripts' = [scripts EXCEPT ![i].done = TRUE]
       /\ last' = [op |-> "scan", arg |-> scripts[i].detected, status |-> 0, ret |-> <<>>]
       /\ UNCHANGED <<clients, readyState, messageQueues, files, opLog,
                      subscriptions, calls, commands>>

\* handleUpgrade / onConnection for a new socket
Connect(ws) ==
    /\ readyState[ws] = "CONNECTING"
    /\ readyState' = [readyState EXCEPT ![ws] = "OPEN"]
    /\ clients' = clients \cup {ws}
    /\ subscriptions' = MapSet(subscriptions, ws, {})
    /\ frames' = [frames EXCEPT ![ws] = @ \o ConnectionFrames]
    /\ last' = [op |-> "connect", arg |-> ws, status |-> 0, ret |-> <<>>]
    /\ UNCHANGED <<agents, ringHistory, transcriptWatchers, knownProcesses, nextOid,
                   activityHistory, chatHistory, clock, messageQueues, scripts, files,
                   emitted, opLog,
                   calls, commands>>

\* the peer starts closing: the socket leaves OPEN before its 'close' event fires
BeginClose(ws) ==
    /\ readyState[ws] = "OPEN"
    /\ readyState' = [readyState EXCEPT ![ws] = "CLOSING"]
    /\ last' = [op |-> "closing", arg |-> ws, status |-> 0, ret |-> <<>>]
    /\ UNCHANGED <<agents, ringHistory, transcriptWatchers, knownProcesses, nextOid,
                   clients, activityHistory, chatHistory, frames, clock,
                   messageQueues, scripts, files, emitted, opLog,
                   subscriptions, calls, commands>>

\* ws.on('close')
Close(ws) ==
    /\ readyState[ws] \in {"OPEN", "CLOSING"}
    /\ readyState' = [readyState EXCEPT ![ws] = "CLOSED"]
    /\ clients' = clients \ {ws}
    /\ subscriptions' = MapDelete(subscriptions, ws)
    /\ last' = [op |-> "close", arg |-> ws, status |-> 0, ret |-> <<>>]
    /\ UNCHANGED <<agents, ringHistory, transcriptWatchers, knownProcesses, nextOid,
                   activityHistory, chatHistory, frames, clock, messageQueues, scripts, files,
                   emitted, opLog,
                   calls, commands>>

\* the producer of a log rewrites it (append, truncate, replace, remove)
FileWrite(path, file) ==
    /\ files[path] # file
    /\ files' = [files EXCEPT ![path] = file]
    /\ last' = [op |-> "write", arg |-> path, status |-> 0, ret |-> <<>>]
    /\ UNCHANGED <<agents, ringHistory, transcriptWatchers, knownProcesses, nextOid,
                   clients, readyState, activityHistory, chatHistory, frames, clock,
                   messageQueues, scripts, emitted, opLog,
                   subscriptions, calls, commands>>

\* the manager with the watcher of agentId replaced
WithWatcher(M, agentId, w) ==
    [M EXCEPT !.transcriptWatchers = MapSet(@, agentId, w)]

\* the poll timer of a watcher fires: a local log is read and processed at once,
\* a WSL log is read by a child process that answers later
Tick(agentId) ==
    /\ MapHas(transcriptWatchers, agentId)
    /\ LET w == MapGet(transcriptWatchers, agentId) IN
       /\ w.watchInterval
       /\ IF w.isWsl
          THEN LET w1 == [w EXCEPT !.reads = @ (+) SetToBag({[initial |-> FALSE,
                                                  read |-> ReadFile(w.transcriptPath)]})]
               IN Commit(WithWatcher(Manager, agentId, w1), <<>>)
          ELSE LET Processed(r) ==
                       Commit(WithWatcher(Manager, agentId, r.w), Forward(agentId, r.out))
               IN Processed(ReadNewEntries(w, ReadFile(w.transcriptPath)))
    /\ last' = [op |-> "tick", arg |-> agentId, status |-> 0, ret |-> <<>>]
    /\ UNCHANGED <<knownProcesses, clients, readyState, messageQueues, scripts, files, opLog,
                   subscriptions, calls, commands>>

\* the reads in flight of the watcher of agentId
ReadsOf(agentId) ==
    IF MapHas(transcriptWatchers, agentId)
    THEN MapGet(transcriptWatchers, agentId).reads ELSE EmptyBag

\* a read in flight of a WSL watcher answers (in any order); the initial read
\* of startWatching then arms the poll timer
ReadDone(agentId, rd) ==
    /\ MapHas(transcriptWatchers, agentId)
    /\ BagIn(rd, ReadsOf(agentId))
    /\ LET w  == MapGet(transcriptWatchers, agentId)
           Answered(r) ==
               Commit(WithWatcher(Manager, agentId,
                          [r.w EXCEPT !.reads = w.reads (-) SetToBag({rd}),
                                      !.starting = IF rd.initial THEN FALSE ELSE @,
                                      !.watchInterval = IF rd.initial THEN TRUE ELSE @]),
                      Forward(agentId, r.out))
       IN Answered(ReadNewEntries(w, rd.read))
    /\ last' = [op |-> "read", arg |-> agentId, status |-> 0, ret |-> <<>>]
    /\ UNCHANGED <<knownProcesses, clients, readyState, messageQueues, scripts, files, opLog,
                   subscriptions, calls, commands>>

\* TranscriptWatcher.stopWatching: the poll timer, if there is one, is cleared
stopWatching(w) == IF w.watchInterval THEN [w EXCEPT !.watchInterval = FALSE] ELSE w

\* the watchers a stopAll removes from the Map while a read of theirs is still
\* running: the child process keeps the watcher, and `late` collects the
\* messages it emits from then on
Stopped(tw) ==
    LET pending == SelectSeq(tw, LAMBDA e : e.v.reads # EmptyBag)
    IN [i \in 1..Len(pending) |->
           [kind |-> "tailer", w |-> stopWatching(pending[i].v), late |-> <<>>]]

\* AgentManager.stopAll: every watcher is stopped and removed, the agents and
\* their rings are cleared (the detector's timer is not part of the state)
StopAll ==
    /\ agents' = <<>>
    /\ ringHistory' = <<>>
    /\ transcriptWatchers' = <<>>
    /\ scripts' = scripts \o Stopped(transcriptWatchers)
    /\ last' = [op |-> "stopAll", arg |-> <<>>, status |-> 0, ret |-> <<>>]
    /\ UNCHANGED <<knownProcesses, nextOid, clients, readyState, activityHistory,
                   chatHistory, frames, clock, messageQueues, files, emitted, opLog,
                   subscriptions, calls, commands>>

\* a read of a removed watcher is answered: readNewEntries goes on from the
\* output, the manager's 'message' listener is still attached, and startWatching,
\* if this was its initial read, sets the poll timer
StoppedReadDone(i, rd) ==
    /\ scripts[i].kind = "tailer"
    /\ BagIn(rd, scripts[i].w.reads)
    /\ LET w == scripts[i].w
           Answered(r) ==
               /\ Commit(Manager, Forward(w.agentId, r.out))
               /\ scripts' = [scripts EXCEPT
                     ![i].w = [r.w EXCEPT !.reads = w.reads (-) SetToBag({rd}),
                                          !.starting = IF rd.initial THEN FALSE ELSE @,
                                          !.watchInterval = IF rd.initial THEN TRUE ELSE @],
                     ![i].late = @ \o r.out]
       IN Answered(ReadNewEntries(w, rd.read))
    /\ last' = [op |-> "read", arg |-> scripts[i].w.agentId, status |-> 0, ret |-> <<>>]
    /\ UNCHANGED <<knownProcesses, clients, readyState, messageQueues, files, opLog,
                   subscriptions, calls, commands>>

\* the poll timer of a removed watcher fires
StoppedTick(i) ==
    /\ scripts[i].kind = "tailer"
    /\ scripts[i].w.watchInterval
    /\ scripts[i].w.isWsl
    /\ scripts' = [scripts EXCEPT ![i].w.reads =
                      @ (+) SetToBag({[initial |-> FALSE,
                                       read |-> ReadFile(scripts[i].w.transcriptPath)]})]
    /\ last' = [op |-> "tick", arg |-> scripts[i].w.agentId, status |-> 0, ret |-> <<>>]
    /\ UNCHANGED <<agents, ringHistory, transcriptWatchers, knownProcesses, nextOid,
                   clients, readyState, activityHistory, chatHistory, frames, clock,
                   messageQueues, files, emitted, opLog, subscriptions, calls, commands>>

---------------------------------------------------------------------------
(* Inputs of the model *)

Sockets == {1, 2}
Paths   == {"t1", "t2"}

\* the one process the detector can list: copilot, Windows side, pid 7
P1   == [type |-> "copilot", pid |-> "7", isWsl |-> FALSE]
P1Id == ProcessToAgentId(P1)

\* a hooks agent running inside WSL
W1 == <<"claude", "wsl", "1">>

Listings == {<<>>, <<P1>>}

U1 == JsonLine("u1", "user", StringMessage(Hello))
U2 == JsonLine("u2", "assistant", ArrayMessage(<<TextBlock(<<"o", "k">>)>>))
\* a record that is no conversation turn, and a turn without content
S1 == JsonLine("u1", "system", StringMessage(<<"s">>))
E2 == JsonLine("u2", "user", NoMessage)

\* all sequences over S of length at most n
SeqsUpTo(S, n) == UNION {[1..k -> S] : k \in 0..n}

File(content) == [exists |-> TRUE, content |-> content]

PromptData(prompt) == [NoData EXCEPT !.has = TRUE, !.prompt = prompt]
PathData(path)     == [NoData EXCEPT !.has = TRUE, !.transcript_path = path]

Prompt(t, id, prompt) == HookBody(t, "UserPromptSubmit", id, PromptData(prompt))
SessionStart(id, path) == HookBody("hook_event", "SessionStart", id, PathData(path))

\* sockets connect in the order of their numbers
NextSocket(ws) == \A o \in Sockets : o < ws => readyState[o] # "CONNECTING"

\* the log only grows
IsAppend(path, file) ==
    /\ file.exists
    /\ Len(files[path].content) < Len(file.content)
    /\ SubSeq(file.content, 1, Len(files[path].content)) = files[path].content

\* the number of agent_connected and agent_disconnected events emitted so far
LifecycleCount ==
    Cardinality({i \in 1..Len(emitted) :
                    emitted[i].type \in {"agent_connected", "agent_disconnected"}})

InitWith(disk) ==
    /\ agents = <<>>
    /\ ringHistory = <<>>
    /\ transcriptWatchers = <<>>
    /\ knownProcesses = <<>>
    /\ nextOid = 1
    /\ clients = {}
    /\ readyState = [ws \in Sockets |-> "CONNECTING"]
    /\ activityHistory = <<>>
    /\ chatHistory = <<>>
    /\ frames = [ws \in Sockets |-> <<>>]
    /\ clock = 0
    /\ messageQueues = <<>>
    /\ scripts = <<>>
    /\ files = disk
    /\ emitted = <<>>
    /\ opLog = <<>>
    /\ subscriptions = <<>>
    /\ calls = <<>>
    /\ commands = <<>>
    /\ last = [op |-> "init", arg |-> <<>>, status |-> 0, ret |-> <<>>]

\* the server after construction, no transcript written yet
Init == InitWith([p \in Paths |-> NoFile])

---------------------------------------------------------------------------
(* Spec: the relay with hooks, detector, one tailed log and one socket *)

RelayBodies == {Prompt("hook_event", A1, Hello), SessionStart(A1, "t1"),
                SessionStart(P1Id, "t1")}

RelayFiles == {File(<<U1>>), File(<<U1, U2>>)}

Next ==
    \/ \E body \in RelayBodies : clock < MaxActivity /\ HookPost(body)
    \/ \E detected \in Listings : LifecycleCount < MaxLifecycle /\ Scan(detected)
    \/ Connect(1)
    \/ Close(1)
    \/ \E file \in RelayFiles : IsAppend("t1", file) /\ FileWrite("t1", file)
    \/ \E id \in {A1, P1Id} : Tick(id)

Spec == Init /\ [][Next]_vars

---------------------------------------------------------------------------
(* SpecReplay: histories of two agents, then connections *)

ReplayBodies == {Prompt("hook_event", A1, Hello), SessionStart(A1, "t1"),
                 SessionStart(P1Id, "t1")}

NextReplay ==
    \/ \E body \in ReplayBodies : clock < ReplayActivity /\ HookPost(body)
    \/ \E ws \in Sockets : NextSocket(ws) /\ Connect(ws)
    \/ \E file \in RelayFiles : IsAppend("t1", file) /\ FileWrite("t1", file)
    \/ \E id \in {A1, P1Id} : Tick(id)

SpecReplay == Init /\ [][NextReplay]_vars

---------------------------------------------------------------------------
(* SpecHooks: hook requests, snapshots and two sockets that come and go *)

HooksBodies == {Prompt(t, id, p) : t \in {"hook_event", ""}, id \in {A1},
                                   p \in {Hello, <<>>}}
               \cup {SessionStart(P1Id, NoPath)}

NextHooks ==
    \/ \E body \in HooksBodies : clock < HooksActivity /\ HookPost(body)
    \/ \E id \in {A1, P1Id} : GetAgent(id)
    \/ \E ws \in Sockets : NextSocket(ws) /\ Connect(ws)
    \/ \E ws \in Sockets : BeginClose(ws)
    \/ \E ws \in Sockets : Close(ws)

SpecHooks == Init /\ [][NextHooks]_vars

---------------------------------------------------------------------------
(* SpecHistory: a long run of activities of one agent, a few of another;   *)
(* each prompt carries its number                                          *)

Numbered(id) == Prompt("hook_event", id, <<ToString(clock + 1)>>)

\* the 'activity' events emitted for id so far
ActivityCount(id) ==
    Cardinality({i \in 1..Len(emitted) :
                    emitted[i].type = "activity" /\ emitted[i].agentId = id})

NextHistory ==
    \/ clock < HistoryActivity /\ HookPost(Numbered(A1))
    \/ ActivityCount(W1) < HistoryOther /\ HookPost(Numbered(W1))

SpecHistory == Init /\ [][NextHistory]_vars

---------------------------------------------------------------------------
(* SpecTailer: one local and one WSL tailer of a log that is rewritten     *)

TailerLines == {U1, U2}

TailerFiles == {NoFile} \cup {File(c) : c \in SeqsUpTo(TailerLines, MaxLines)}

ReadsInFlight(agentId) == BagCardinality(ReadsOf(agentId))

NextTailer ==
    \/ \E id \in {A1, W1} : agents = <<>> /\ HookPost(SessionStart(id, "t1"))
    \/ \E file \in TailerFiles : FileWrite("t1", file)
    \/ \E id \in {A1, W1} : ReadsInFlight(id) < MaxReads /\ Tick(id)
    \/ \E rd \in BagToSet(ReadsOf(W1)) : ReadDone(W1, rd)

SpecTailer == Init /\ [][NextTailer]_vars

---------------------------------------------------------------------------
(* SpecRetry: tailers of a log that grows by whole and by partial lines    *)

RetryLines == {U1, U2, BadLine}

RetryFiles == {NoFile} \cup {File(c) : c \in SeqsUpTo(RetryLines, MaxLines)}

\* the producer appends to its log: it creates the file, adds a line (whole, or
\* a part of it that does not parse yet), or completes the partial last line
Appends(old, new) ==
    /\ new.exists
    /\ \/ ~old.exists
       \/ /\ old.exists
          /\ Len(new.content) = Len(old.content) + 1
          /\ SubSeq(new.content, 1, Len(old.content)) = old.content
       \/ /\ old.exists
          /\ Len(new.content) = Len(old.content)
          /\ Len(old.content) > 0
          /\ old.content[Len(old.content)].kind = "bad"
          /\ SubSeq(new.content, 1, Len(old.content) - 1)
                = SubSeq(old.content, 1, Len(old.content) - 1)

NextRetry ==
    \/ \E id \in {A1, W1} : agents = <<>> /\ HookPost(SessionStart(id, "t1"))
    \/ \E file \in RetryFiles : Appends(files["t1"], file) /\ FileWrite("t1", file)
    \/ \E id \in {A1, W1} : ReadsInFlight(id) < MaxReads /\ Tick(id)
    \/ \E rd \in BagToSet(ReadsOf(W1)) : ReadDone(W1, rd)

SpecRetry == Init /\ [][NextRetry]_vars

---------------------------------------------------------------------------
(* SpecAttach: hooks with and without a transcript for a detected process  *)

AttachBodies == {Prompt("hook_event", P1Id, Hello)}
                \cup {SessionStart(P1Id, path) : path \in Paths}

NextAttach ==
    \/ \E body \in AttachBodies : clock < RegistryActivity /\ HookPost(body)
    \/ \E detected \in Listings : LifecycleCount < MaxLifecycle /\ Scan(detected)

SpecAttach == Init /\ [][NextAttach]_vars

---------------------------------------------------------------------------
(* SpecPurge: activity of two agents, one of them ended by the detector    *)

PurgeBodies == {Prompt("hook_event", id, Hello) : id \in {A1, P1Id}}

NextPurge ==
    \/ \E body \in PurgeBodies : clock < RegistryActivity /\ HookPost(body)
    \/ \E detected \in Listings : LifecycleCount < MaxPurge /\ Scan(detected)
    \/ \E ws \in Sockets : NextSocket(ws) /\ Connect(ws)
    \/ Close(2)

SpecPurge == Init /\ [][NextPurge]_vars

---------------------------------------------------------------------------
(* SpecChat: a long log of numbered records tailed for one agent           *)

NumberedLine(n) == JsonLine(ToString(n), "user", StringMessage(<<ToString(n)>>))

\* the log with one more record, numbered by its line
OneMoreLine(file) == File(Append(file.content, NumberedLine(Len(file.content) + 1)))

\* the records of the log the watcher of a1 has not read yet
Lag == Len(files["t1"].content) - MapGet(transcriptWatchers, A1).lastLineCount

\* the log starts with the session
NextChat ==
    \/ agents = <<>> /\ HookPost(SessionStart(A1, "t1"))
    \/ /\ HasAgent(Manager, A1)
       /\ Len(files["t1"].content) < ChatMessages
       /\ Lag < MaxLag
       /\ FileWrite("t1", OneMoreLine(files["t1"]))
    \/ Tick(A1)

SpecChat == Init /\ [][NextChat]_vars

---------------------------------------------------------------------------
(* SpecRing: a long run of hooks of one agent, one hook of another         *)

NextRing ==
    \/ ActivityCount(A1) < RingActivity /\ HookPost(Numbered(A1))
    \/ ~HasAgent(Manager, W1) /\ HookPost(Numbered(W1))

SpecRing == Init /\ [][NextRing]_vars

---------------------------------------------------------------------------
(* SpecStatic: tailers polling a transcript that does not change           *)

StaticLines == {U1, U2, S1, E2, BadLine, BlankLine}

InitStatic ==
    \E c \in SeqsUpTo(StaticLines, MaxLines) : InitWith([p \in Paths |-> File(c)])

NextStatic ==
    \/ \E id \in {A1, W1} : ~HasAgent(Manager, id) /\ HookPost(SessionStart(id, "t1"))
    \/ \E id \in {A1, W1} : ReadsInFlight(id) < MaxReads /\ Tick(id)
    \/ \E rd \in BagToSet(ReadsOf(W1)) : ReadDone(W1, rd)

SpecStatic == InitStatic /\ [][NextStatic]_vars

---------------------------------------------------------------------------
(* SpecRegistry: hooks, detector and instant sends against the registry    *)

RegistryBodies == {Prompt("hook_event", id, Hello) : id \in {A1, P1Id}}
                  \cup {SessionStart(A1, "t1")}

NextRegistry ==
    \/ \E body \in RegistryBodies : clock < RegistryActivity /\ HookPost(body)
    \/ \E detected \in Listings : LifecycleCount < MaxLifecycle /\ Scan(detected)
    \/ \E id \in {A1, P1Id} :
          /\ clock < RegistryActivity
          /\ scripts = <<>>
          /\ SendPost(id, SendBody(<<"x">>, TRUE, TRUE))
    \/ \E ok \in BOOLEAN : ScriptDone(1, ok)

SpecRegistry == Init /\ [][NextRegistry]_vars

---------------------------------------------------------------------------
(* SpecQueue: enqueue, dequeue and peek requests for two agents            *)

QueueBodies == {SendBody(m, TRUE, FALSE) : m \in {<<"x">>, <<"y">>}}
               \cup {SendBody(<<>>, TRUE, FALSE)}

NextQueue ==
    \/ \E id \in {A1, W1} : ~HasAgent(Manager, id) /\ HookPost(SessionStart(id, NoPath))
    \/ \E id \in {A1, W1}, body \in QueueBodies :
          Len(opLog) < MaxQueueOps /\ SendPost(id, body)
    \/ \E id \in {A1, W1} : Len(opLog) < MaxQueueOps /\ Dequeue(id)
    \/ \E id \in {A1, W1} : Len(opLog) < MaxQueueOps /\ Peek(id)

SpecQueue == Init /\ [][NextQueue]_vars

---------------------------------------------------------------------------
(* SpecCommands: send_message and interrupt commands of two clients        *)

SendCommand(agentId, message, instant) ==
    Command("send_message", agentId, message, TRUE, instant)

\* commands for the registered agent a1, for an agent that is not registered,
\* and commands that lack the agent id or the text
SendCommands ==
    {SendCommand(A1, <<"x">>, instant) : instant \in BOOLEAN}
    \cup {SendCommand(W1, <<"x">>, FALSE), SendCommand(<<>>, <<"x">>, FALSE),
          SendCommand(A1, <<>>, FALSE)}
    \cup {Command("interrupt", id, <<>>, TRUE, FALSE) : id \in {A1, W1, <<>>}}

NextCommands ==
    \/ ~HasAgent(Manager, A1) /\ HookPost(SessionStart(A1, NoPath))
    \/ \E ws \in Sockets : NextSocket(ws) /\ Connect(ws)
    \/ Close(2)
    \/ \E ws \in Sockets, message \in SendCommands :
          Len(commands) < MaxCommands /\ WsCommand(ws, message)
    \/ \E i \in 1..Len(calls) : CallRoute(i)
    \/ \E i \in 1..Len(calls) : CallFails(i)
    \/ \E i \in 1..Len(calls) : CallAnswered(i)
    \/ \E i \in 1..Len(scripts), ok \in BOOLEAN : ScriptDone(i, ok)

SpecCommands == Init /\ [][NextCommands]_vars

---------------------------------------------------------------------------
(* SpecSubscribe: subscriptions of two clients while the relay broadcasts  *)

SubscribeCommands ==
    {Command(type, A1, <<>>, TRUE, FALSE) : type \in {"subscribe", "unsubscribe"}}

SubscribeBodies == {SessionStart(A1, "t1"), Prompt("hook_event", A1, Hello)}

NextSubscribe ==
    \/ \E body \in SubscribeBodies : clock < HooksActivity /\ HookPost(body)
    \/ \E detected \in Listings : LifecycleCount < MaxLifecycle /\ Scan(detected)
    \/ \E ws \in Sockets : NextSocket(ws) /\ Connect(ws)
    \/ Close(2)
    \/ \E ws \in Sockets, message \in SubscribeCommands :
          Len(commands) < MaxCommands /\ WsCommand(ws, message)
    \/ agents = <<>> /\ FileWrite("t1", File(<<U1>>))

SpecSubscribe == Init /\ [][NextSubscribe]_vars

---------------------------------------------------------------------------
(* SpecRouting: commands and requests the relay cannot route               *)

\* a text to queue for a1, and the commands that name no agent, an agent that
\* is not registered, or no text
RoutingCommands ==
    {SendCommand(A1, <<"x">>, FALSE), SendCommand(W1, <<"x">>, FALSE),
     SendCommand(<<>>, <<"x">>, FALSE), SendCommand(A1, <<>>, FALSE)}
    \cup {Command("interrupt", id, <<>>, TRUE, FALSE) : id \in {W1, <<>>}}

\* bodies of POST /agents/:id/send from outside clients: a text to queue, an
\* empty text and a message that is not a string
RestBodies ==
    {SendBody(<<"y">>, TRUE, FALSE), SendBody(<<>>, TRUE, FALSE),
     SendBody(<<"y">>, FALSE, FALSE)}

NextRouting ==
    \/ ~HasAgent(Manager, A1) /\ HookPost(SessionStart(A1, NoPath))
    \/ \E ws \in Sockets : NextSocket(ws) /\ Connect(ws)
    \/ \E ws \in Sockets, message \in RoutingCommands :
          Len(commands) < MaxCommands /\ WsCommand(ws, message)
    \/ \E id \in {A1, W1}, body \in RestBodies :
          Len(opLog) < MaxCommands /\ SendPost(id, body)
    \/ InterruptPost(W1)
    \/ \E i \in 1..Len(calls) : CallRoute(i)
    \/ \E i \in 1..Len(calls) : CallAnswered(i)

SpecRouting == Init /\ [][NextRouting]_vars

---------------------------------------------------------------------------
(* SpecPolling: a hook that polls the queue of an agent the detector loses *)

Enqueues == Cardinality({k \in 1..Len(opLog) : opLog[k].op = "enqueue"})

NextPolling ==
    \/ \E detected \in Listings : LifecycleCount < MaxPurge /\ Scan(detected)
    \/ \E m \in {<<"x">>, <<"y">>} :
          Enqueues < MaxPolled /\ SendPost(P1Id, SendBody(m, TRUE, FALSE))
    \/ (QueueOf(P1Id) # <<>> \/ Len(opLog) < MaxQueueOps) /\ Dequeue(P1Id)

\* the hook polls again and again: a dequeue of a queue that holds a message
\* cannot be put off for ever
SpecPolling ==
    /\ Init /\ [][NextPolling]_vars
    /\ WF_vars(QueueOf(P1Id) # <<>> /\ Dequeue(P1Id))

---------------------------------------------------------------------------
(* SpecAck: queued sends to an agent that the detector may lose          *)

AckCommands == {SendCommand(P1Id, <<"x">>, FALSE)}

NextAck ==
    \/ \E detected \in Listings : LifecycleCount < MaxLifecycle /\ Scan(detected)
    \/ \E ws \in Sockets : NextSocket(ws) /\ Connect(ws)
    \/ \E ws \in Sockets, message \in AckCommands :
          Len(commands) < MaxCommands /\ WsCommand(ws, message)
    \/ \E i \in 1..Len(calls) : CallRoute(i)
    \/ \E i \in 1..Len(calls) : CallAnswered(i)

SpecAck == Init /\ [][NextAck]_vars

---------------------------------------------------------------------------
(* SpecDelivery: a client that connects and closes while activity arrives  *)

NextDelivery ==
    \/ clock < HistoryActivity /\ HookPost(Numbered(A1))
    \/ agents = <<>> /\ HookPost(Numbered(W1))
    \/ Connect(1)
    \/ BeginClose(1)

SpecDelivery == Init /\ [][NextDelivery]_vars

---------------------------------------------------------------------------
(* SpecOverlap: the interval timer starts scans while earlier ones run     *)

NextOverlap ==
    \/ \E detected \in Listings : Len(scripts) < MaxScans /\ ScanBegin(detected)
    \/ \E i \in 1..Len(scripts) : ScanEnd(i)

SpecOverlap == Init /\ [][NextOverlap]_vars

---------------------------------------------------------------------------
(* SpecMirror: one mobile client whose first connection ends and which     *)
(* connects again on a second socket                                       *)

NextMirror ==
    \/ \E body \in {Numbered(A1), SessionStart(A1, "t1")} :
          clock < MaxMirror /\ HookPost(body)
    \/ \E file \in RelayFiles : IsAppend("t1", file) /\ FileWrite("t1", file)
    \/ Tick(A1)
    \/ Connect(1)
    \/ BeginClose(1)
    \/ Close(1)
    \/ readyState[1] \in {"CLOSING", "CLOSED"} /\ Connect(2)

SpecMirror == Init /\ [][NextMirror]_vars

\* the client's mirror once it has handled every frame written to its sockets;
\* its first connection ended by disconnect() or by a failure (onFailure
\* leaves both lists as they are)
Mirror(byDisconnect) ==
    LET first   == Received(emptyMirror, frames[1])
        dropped == readyState[1] \in {"CLOSING", "CLOSED"}
        Again(m) == Received(m, frames[2])
    IN Again(IF dropped /\ byDisconnect THEN disconnect(first) ELSE first)

---------------------------------------------------------------------------
(* SpecStop: a WSL tailer and a local one, stopped while reads are running *)

NextStop ==
    \/ \E id \in {A1, W1} :
          /\ agents = <<>> /\ scripts = <<>> /\ clock < MaxActivity
          /\ HookPost(SessionStart(id, "t1"))
    \/ \E file \in RelayFiles : IsAppend("t1", file) /\ FileWrite("t1", file)
    \/ \E id \in {A1, W1} : ReadsInFlight(id) < MaxReads /\ Tick(id)
    \/ \E rd \in BagToSet(ReadsOf(W1)) : ReadDone(W1, rd)
    \/ transcriptWatchers # <<>> /\ StopAll
    \/ \E i \in 1..Len(scripts) :
          \E rd \in BagToSet(scripts[i].w.reads) : StoppedReadDone(i, rd)
    \/ \E i \in 1..Len(scripts) :
          BagCardinality(scripts[i].w.reads) < MaxReads /\ StoppedTick(i)

SpecStop == Init /\ [][NextStop]_vars

---------------------------------------------------------------------------
(* SpecMessages: the messages of a log asked for while tailers poll it    *)

NextMessages ==
    \/ \E id \in {A1, W1} : ~HasAgent(Manager, id) /\ HookPost(SessionStart(id, "t1"))
    \/ \E id \in {A1, W1} : ReadsInFlight(id) < MaxReads /\ Tick(id)
    \/ \E rd \in BagToSet(ReadsOf(W1)) : ReadDone(W1, rd)
    \/ \E id \in {A1, W1} : GetTranscriptMessages(id)

SpecMessages == InitStatic /\ [][NextMessages]_vars

---------------------------------------------------------------------------
(* SpecTable: hook events of every type, with texts at the cut lengths     *)

Text(n) == [i \in 1..n |-> ToString(i)]

TableData ==
    {PromptData(t) : t \in {Text(100), Text(101)}}
    \cup {[NoData EXCEPT !.has = TRUE, !.tool_name = <<"Bash">>, !.name = <<"Edit">>],
          [NoData EXCEPT !.has = TRUE, !.name = <<"Edit">>, !.error = TRUE]}
    \cup {[NoData EXCEPT !.has = TRUE, !.message = <<"m">>, !.content = <<"c">>],
          [NoData EXCEPT !.has = TRUE, !.content = <<"c">>]}
    \cup {[NoData EXCEPT !.has = TRUE, !.assistant_response = t] :
             t \in {Text(150), Text(151)}}

TableBodies ==
    {HookBody("hook_event", eventType, A1, NoData) :
        eventType \in {"SessionStart", "UserPromptSubmit", "PreToolUse", "PostToolUse",
                       "Notification", "Stop", "SubagentStop"}}
    \cup {HookBody("hook_event", "UserPromptSubmit", A1, d) : d \in TableData}
    \cup {HookBody("hook_event", "PreToolUse", A1, d) : d \in TableData}
    \cup {HookBody("hook_event", "PostToolUse", A1, d) : d \in TableData}
    \cup {HookBody("hook_event", "Notification", A1, d) : d \in TableData}
    \cup {HookBody("hook_event", "Stop", A1, d) : d \in TableData}

NextTable ==
    \E body \in TableBodies : clock < HooksActivity /\ HookPost(body)

SpecTable == Init /\ [][NextTable]_vars

---------------------------------------------------------------------------
(* SpecKinds: get-or-create calls with and without a source               *)

KindIds == {A1, P1Id, <<"Copilot", "x">>, <<"antigravity", "1">>, <<"ANTIGRAVITY">>}

Sources == {"", "antigravity", "copilot", "claude-code", "claude", "cursor"}

NextKinds ==
    \E agentId \in KindIds, source \in Sources :
       /\ HasAgent(Manager, agentId) \/ Len(agents) < MaxAgents
       /\ GetOrCreate(agentId, NoPath, source)

SpecKinds == Init /\ [][NextKinds]_vars

---------------------------------------------------------------------------
(* SpecFrames: clients that send frames, some of them not JSON             *)

FrameData ==
    {NotJson, Json(Command("list_agents", <<>>, <<>>, TRUE, FALSE))}
    \cup {Json(c) : c \in SubscribeCommands}

NextFrames ==
    \/ ~HasAgent(Manager, A1) /\ HookPost(SessionStart(A1, NoPath))
    \/ \E ws \in Sockets : NextSocket(ws) /\ Connect(ws)
    \/ Close(2)
    \/ \E ws \in Sockets, data \in FrameData :
          Len(commands) < MaxCommands /\ OnMessage(ws, data)

SpecFrames == Init /\ [][NextFrames]_vars

---------------------------------------------------------------------------
(* SpecTranscript: the chat of an agent whose log is written, over REST     *)

TranscriptBodies == {SessionStart(A1, "t1"), Prompt("hook_event", A1, Hello)}

NextTranscript ==
    \/ \E body \in TranscriptBodies : clock < HooksActivity /\ HookPost(body)
    \/ \E file \in TailerFiles : FileWrite("t1", file)
    \/ \E id \in {A1, W1} : GetChat(id)

SpecTranscript == Init /\ [][NextTranscript]_vars

---------------------------------------------------------------------------
(* Properties *)

AllIds == {A1, P1Id, W1}

\* the frames of r of one type for one agent
FramesOf(r, type, id) ==
    LET mine(f) == f.type = type /\ f.agentId = id IN SelectSeq(r, mine)

StoredActivity(id) ==
    IF MapHas(activityHistory, id) THEN MapGet(activityHistory, id) ELSE <<>>

StoredChat(id) ==
    IF MapHas(chatHistory, id) THEN MapGet(chatHistory, id) ELSE <<>>

\* C1: the frames a new connection receives are one agents_list frame, then
\* every stored activity of every agent in recorded order, then every stored
\* chat message of every agent in recorded order; no chat_message frame
\* precedes an activity frame and nothing precedes agents_list.
C1_ReplayOrder ==
    last.op = "connect" =>
        LET r == frames[last.arg] IN
        /\ Len(r) >= 1
        /\ r[1].type = "agents_list"
        /\ r[1].payload = GetAgents(Manager)
        /\ \A i \in 2..Len(r) : r[i].type \in {"activity", "chat_message"}
        /\ \A i, j \in 1..Len(r) :
              (i < j /\ r[i].type = "chat_message") => r[j].type = "chat_message"
        /\ \A id \in AllIds :
              LET a == FramesOf(r, "activity", id)
                  c == FramesOf(r, "chat_message", id)
              IN /\ Len(a) = Len(StoredActivity(id))
                 /\ \A i \in 1..Len(a) :
                       /\ a[i].payload = StoredActivity(id)[i].content
                       /\ a[i].timestamp = StoredActivity(id)[i].timestamp
                 /\ Len(c) = Len(StoredChat(id))
                 /\ \A i \in 1..Len(c) :
                       /\ c[i].payload.uuid = StoredChat(id)[i].uuid
                       /\ c[i].payload.content = StoredChat(id)[i].content
                       /\ c[i].payload.role = StoredChat(id)[i].role

\* a connection that replayed three activities and two chat messages of agent a1
C1_Witness ==
    /\ last.op = "connect"
    /\ Len(FramesOf(frames[last.arg], "activity", A1)) = 3
    /\ Len(FramesOf(frames[last.arg], "chat_message", A1)) = 2

\* the agent ids a client has been told about by the first n frames it received
RECURSIVE KnownAgents(_, _)
KnownAgents(r, n) ==
    IF n = 0 THEN {}
    ELSE LET before == KnownAgents(r, n - 1)
             f      == r[n]
         IN CASE f.type = "agents_list" ->
                    {f.payload[i].id : i \in 1..Len(f.payload)}
              [] f.type = "agent_connected" -> before \cup {f.agentId}
              [] f.type = "agent_disconnected" -> before \ {f.agentId}
              [] OTHER -> before

\* C2: a client never receives a chat_message frame, replayed or live, for an
\* agent id outside the set it has been told about (its last agents_list plus
\* agent_connected minus agent_disconnected frames).
C2_ChatOnlyForKnownAgents ==
    \A ws \in Sockets : \A n \in 1..Len(frames[ws]) :
        frames[ws][n].type = "chat_message" =>
            frames[ws][n].agentId \in KnownAgents(frames[ws], n - 1)

\* the index of the last agent_disconnected event of id in the log, 0 if none
LastDisconnect(id) ==
    LET ds == {i \in 1..Len(emitted) :
                  emitted[i].type = "agent_disconnected" /\ emitted[i].agentId = id}
    IN IF ds = {} THEN 0 ELSE CHOOSE i \in ds : \A j \in ds : j <= i

\* the contents of the 'activity' events of id since its last disconnect
ActivitySince(id) ==
    LET i0 == LastDisconnect(id)
        live(e) == e.type = "activity" /\ e.agentId = id
        evs == SelectSeq(SubSeq(emitted, i0 + 1, Len(emitted)), live)
    IN [i \in 1..Len(evs) |-> evs[i].payload]

\* the last n elements of s
LastN(s, n) == SubSeq(s, Len(s) - n + 1, Len(s))

\* C3: the relay keeps at most 50 activities per agent, and they are the most
\* recent ones since the agent's last disconnect, in the order recorded
\* (exactly the 50 most recent once more than 50 were recorded).
C3_BoundedHistory ==
    \A id \in AllIds :
        LET h    == StoredActivity(id)
            all  == ActivitySince(id)
            keep == LastN(all, Min(MAX_HISTORY, Len(all)))
        IN /\ Len(h) <= MAX_HISTORY
           /\ Len(h) = Len(keep)
           /\ \A i \in 1..Len(h) : h[i].content = keep[i]

\* agent a1 had more than 50 activities and the relay holds 50 of them
C3_Witness ==
    /\ Len(ActivitySince(A1)) > MAX_HISTORY
    /\ Len(StoredActivity(A1)) = MAX_HISTORY
    /\ Len(StoredActivity(W1)) > 0

\* the 'message' events the watcher of id has emitted so far
MessagesOf(id) ==
    LET mine(e) == e.type = "chat_message" /\ e.agentId = id
    IN SelectSeq(emitted, mine)

\* the records of the transcript and their distinct identities
IsRecord(line) == line.kind = "json"
Records == SelectSeq(files["t1"].content, IsRecord)
Identities == {Records[i].uuid : i \in 1..Len(Records)}

\* the first record of the transcript that carries the identity u
FirstRecord(u) ==
    Records[CHOOSE i \in 1..Len(Records) :
                /\ Records[i].uuid = u
                /\ \A j \in 1..(i - 1) : Records[j].uuid # u]

\* a record that is a conversation turn with something to show
IsTurn(entry) == entry.type \in {"user", "assistant"} /\ ~ParseMessage(entry).null

\* the watcher of id has completed a poll
Polled(id) ==
    MapHas(transcriptWatchers, id) /\ ~MapGet(transcriptWatchers, id).starting

\* C4 as stated: once a poll has completed, a transcript with K distinct
\* identities has produced exactly K 'message' events.
C4_ExactlyK ==
    \A id \in {A1, W1} :
        Polled(id) => Len(MessagesOf(id)) = Cardinality(Identities)

\* C4, amended: for a transcript with K distinct identities polled any number
\* of times, at most K 'message' events are emitted in total, and once a poll
\* has completed exactly one per identity whose first record is a user or
\* assistant turn with content.
C4_AtMostK ==
    \A id \in {A1, W1} :
        /\ Len(MessagesOf(id)) <= Cardinality(Identities)
        /\ Polled(id) =>
              /\ Len(MessagesOf(id))
                    = Cardinality({u \in Identities : IsTurn(FirstRecord(u))})
              /\ \A u \in Identities :
                    IsTurn(FirstRecord(u)) =>
                        \E i \in 1..Len(MessagesOf(id)) :
                            MessagesOf(id)[i].payload.uuid = u

\* a transcript of two records with one identity, polled again after the
\* first poll, with one message emitted
C4_Witness ==
    /\ Len(Records) = 2
    /\ Cardinality(Identities) = 1
    /\ last.op = "tick" /\ last.arg = A1
    /\ Len(MessagesOf(A1)) = 1

\* C5: within the lifetime of one watcher a record id is emitted in a
\* 'message' event at most once, however the log changes between polls and
\* however the asynchronous reads overlap and complete.
C5_AtMostOncePerUuid ==
    \A id \in {A1, W1} :
        \A i, j \in 1..Len(MessagesOf(id)) :
            MessagesOf(id)[i].payload.uuid = MessagesOf(id)[j].payload.uuid => i = j

\* a read of the WSL watcher answered while another read, taken from a
\* different content of the log, is still in flight, after a message was emitted
C5_Witness ==
    /\ last.op = "read" /\ last.arg = W1
    /\ Len(MessagesOf(W1)) >= 2
    /\ \E rd \in BagToSet(ReadsOf(W1)) :
          /\ rd.read.exists
          /\ rd.read # files["t1"]
          /\ \E k \in 1..Len(rd.read.content) :
                rd.read.content[k].uuid = MessagesOf(W1)[1].payload.uuid

\* the transcript paths a hook can carry
HookPaths == {NoPath, "t1"}

\* the 'agent_connected' events among evs
ConnectedIn(evs) ==
    LET connected(e) == e.type = "agent_connected" IN SelectSeq(evs, connected)

\* the events of one type emitted so far for one agent
EmittedFor(type, id) ==
    LET mine(e) == e.type = type /\ e.agentId = id IN SelectSeq(emitted, mine)

\* C6: two get-or-create calls with the same agent id and the same metadata
\* return the same agent object, the second leaves the registry as the first
\* left it with one entry for the id, and 'agent_connected' is emitted once
\* (by the first call, when it created the agent).  For a1, which only hooks
\* register, the log of events shows one 'agent_connected' however many
\* hooks arrived, and it carries the object the registry holds.
C6_GetOrCreateIdempotent ==
    /\ \A id \in AllIds, path \in HookPaths :
          LET r1 == GetOrCreateHooksAgent(Manager, id, path, "")
              r2 == GetOrCreateHooksAgent(r1.M, id, path, "")
          IN /\ r2.ret = r1.ret
             /\ r2.M = r1.M
             /\ r2.events = <<>>
             /\ Cardinality({i \in 1..Len(r2.M.agents) : r2.M.agents[i].k = id}) = 1
             /\ MapGet(r2.M.agents, id) = r2.ret
             /\ Len(ConnectedIn(r1.events \o r2.events))
                   = IF HasAgent(Manager, id) THEN 0 ELSE 1
    /\ Len(EmittedFor("agent_connected", A1)) <= 1
    /\ HasAgent(Manager, A1) =>
          /\ Len(EmittedFor("agent_connected", A1)) = 1
          /\ EmittedFor("agent_connected", A1)[1].payload.oid = MapGet(agents, A1).oid

\* a second hook for a1 has just been handled: get-or-create ran twice for a1
C6_Witness ==
    /\ last.op = "POST /hooks" /\ last.status = 200 /\ last.arg.agentId = A1
    /\ Len(EmittedFor("activity", A1)) >= 2
    /\ Len(EmittedFor("agent_connected", A1)) = 1

\* the requests of one kind logged for one agent id
OpsOf(id, ops) ==
    LET mine(e) == e.id = id /\ e.op \in ops IN SelectSeq(opLog, mine)

\* the messages enqueued for id, and the messages its dequeues returned
Enqueued(id) ==
    LET es == OpsOf(id, {"enqueue"}) IN [i \in 1..Len(es) |-> es[i].message]

Dequeued(id) ==
    LET got(e) == e.id = id /\ e.op = "dequeue" /\ e.hasMessage
        ds == SelectSeq(opLog, got)
    IN [i \in 1..Len(ds) |-> ds[i].message]

IsPrefix(a, b) == Len(a) <= Len(b) /\ SubSeq(b, 1, Len(a)) = a

\* C7: for each agent id, under any interleaving of enqueue, dequeue and peek
\* requests, the messages returned by dequeue are a prefix of the messages
\* enqueued for that id, and what was enqueued and not yet returned is what
\* the queue still holds.
C7_DequeuePrefixOfEnqueue ==
    \A id \in {A1, W1} :
        /\ IsPrefix(Dequeued(id), Enqueued(id))
        /\ Dequeued(id) \o QueueOf(id) = Enqueued(id)

\* two different messages were enqueued for a1, peeked at, and both dequeued
C7_Witness ==
    /\ Len(Dequeued(A1)) = 2
    /\ Dequeued(A1)[1] # Dequeued(A1)[2]
    /\ Len(OpsOf(A1, {"peek"})) > 0
    /\ last.op = "GET /queue"

\* the enqueue and dequeue requests for id, and the length its queue had
\* before the k-th of them
QueueOps(id) == OpsOf(id, {"enqueue", "dequeue"})

LengthBefore(id, k) ==
    LET L == QueueOps(id) IN
    Cardinality({i \in 1..(k - 1) : L[i].op = "enqueue"})
    - Cardinality({i \in 1..(k - 1) : L[i].op = "dequeue" /\ L[i].hasMessage})

\* the requests k..k+4 for id are enqueue 'x', enqueue 'y' and three dequeues
IsScenario(id, k) ==
    LET L == QueueOps(id) IN
    /\ k + 4 <= Len(L)
    /\ LengthBefore(id, k) = 0
    /\ L[k].op = "enqueue" /\ L[k].message = <<"x">>
    /\ L[k + 1].op = "enqueue" /\ L[k + 1].message = <<"y">>
    /\ \A j \in 2..4 : L[k + j].op = "dequeue"

\* C8: for an agent with an empty queue, enqueue 'x' then enqueue 'y' and
\* three dequeues: the enqueues report the lengths 1 and 2, the dequeues
\* return 'x', then 'y', then the empty result (hasMessage false).
C8_FifoScenario ==
    \A id \in {A1, W1} : \A k \in 1..Len(QueueOps(id)) :
        IsScenario(id, k) =>
            LET L == QueueOps(id) IN
            /\ L[k].size = 1
            /\ L[k + 1].size = 2
            /\ L[k + 2].hasMessage /\ L[k + 2].message = <<"x">>
            /\ L[k + 3].hasMessage /\ L[k + 3].message = <<"y">>
            /\ ~L[k + 4].hasMessage

\* the scenario has been played for a1
C8_Witness == IsScenario(A1, 1) /\ last.op = "GET /queue"

\* C9: recording activity for an agent id that is not in the registry has no
\* observable effect: no step changes the activity history of an id that is
\* outside the registry before and after it.
C9_NoEffectOnUnknown ==
    [][\A id \in AllIds :
          (~MapHas(agents, id) /\ ~MapHas(agents', id)) =>
              (/\ MapHas(ringHistory', id) = MapHas(ringHistory, id)
               /\ MapHas(ringHistory, id) =>
                     MapGet(ringHistory', id) = MapGet(ringHistory, id))]_vars

\* the frames of the clients that are connected and open
LastFrame(ws) == frames[ws][Len(frames[ws])]

\* the claim's request: the last request handled is POST /hooks with this body
IsPromptPost(type) ==
    last.op = "POST /hooks" /\ last.arg = Prompt(type, A1, Hello)

\* the request was accepted, broadcast and recorded
PromptDelivered(receivers) ==
    /\ last.status = 200
    /\ \A ws \in receivers :
          /\ Len(frames[ws]) > 0
          /\ LastFrame(ws).type = "activity"
          /\ LastFrame(ws).agentId = A1
          /\ Contains(LastFrame(ws).payload, Hello)
    /\ LET g == GetAgentResponse(Manager, A1) IN
       /\ g.status = 200
       /\ Len(g.activity) > 0
       /\ Contains(g.activity[Len(g.activity)], Hello)
       /\ \A ws \in receivers : LastFrame(ws).payload = g.activity[Len(g.activity)]

LastEvent(type, id) ==
    LET es == {i \in 1..Len(emitted) : emitted[i].type = type /\ emitted[i].agentId = id}
    IN IF es = {} THEN 0 ELSE CHOOSE i \in es : \A j \in es : j <= i

\* id was removed from the registry and has not been registered again since
Removed(id) ==
    /\ LastEvent("agent_disconnected", id) > 0
    /\ LastEvent("agent_connected", id) < LastEvent("agent_disconnected", id)

\* C11: once the detector's termination has removed an agent, the registry
\* entry is gone, 'agent_disconnected' was emitted, no tailer is attached to
\* the id any more, and no 'chat_message' is emitted for the id afterwards.
C11_RemovalStopsTailer ==
    \A id \in AllIds :
        Removed(id) =>
            /\ ~HasAgent(Manager, id)
            /\ ~MapHas(transcriptWatchers, id)
            /\ LastEvent("chat_message", id) < LastEvent("agent_disconnected", id)

\* C12: when the script behind a client's send_message or interrupt command
\* fails (the relay's request is answered 500), the requesting connection,
\* still open, receives an 'error' frame and no message_sent or
\* interrupt_sent frame.
C12_FailureRepliesError ==
    (/\ last.op = "ws response"
     /\ last.status = 500
     /\ readyState[last.arg] = "OPEN") =>
        /\ Len(frames[last.arg]) > 0
        /\ LastFrame(last.arg).type = "error"

\* the commands of one kind a socket has sent so far
CommandsOf(ws, types) ==
    LET mine(c) == c.ws = ws /\ c.message.type \in types IN SelectSeq(commands, mine)

\* C13: a message_sent, interrupt_sent or error frame is written only by the
\* handling of a command, and only to the connection that sent the command:
\* in every step, every such frame appended to a socket belongs to a step of
\* the command handlers for that socket, and a message_sent frame names an
\* agent for which that socket sent a send_message command.
C13_ReplyToRequesterOnly ==
    [][\A o \in Sockets :
          \A n \in (Len(frames[o]) + 1)..Len(frames'[o]) :
              frames'[o][n].type \in {"message_sent", "interrupt_sent", "error"} =>
                  /\ last'.op \in {"ws command", "ws failure", "ws response"}
                  /\ last'.arg = o
                  /\ frames'[o][n].type = "message_sent" =>
                        \E k \in 1..Len(commands') :
                            /\ commands'[k].ws = o
                            /\ commands'[k].message.type = "send_message"
                            /\ commands'[k].message.agentId = frames'[o][n].agentId]_vars

\* two open clients have each sent a send_message command and the
\* acknowledgement of one of them has just been delivered
C13_Witness ==
    /\ last.op = "ws response"
    /\ \A ws \in Sockets : readyState[ws] = "OPEN"
    /\ \A ws \in Sockets : Len(CommandsOf(ws, {"send_message"})) = 1
    /\ LastFrame(last.arg).type = "message_sent"

\* a send_message or interrupt command that lacks a required field or names
\* an agent that is not registered
IsBadCommand(message) ==
    /\ message.type \in {"send_message", "interrupt"}
    /\ \/ message.agentId = <<>>
       \/ ~HasAgent(Manager, message.agentId)
       \/ message.type = "send_message" /\ message.message = <<>>

Lines == FileLines(files["t1"].content)

\* the local watcher of a1 has just polled the transcript as it is now
JustPolled ==
    last.op = "tick" /\ last.arg = A1 /\ files["t1"].exists

\* the poll just completed found line k a turn with content
PolledTurn(k) == JustPolled /\ k <= Len(Lines) /\ IsRecord(Lines[k]) /\ IsTurn(Lines[k])

\* a 'message' event of the watcher of id carries the identity u
Emitted(id, u) == \E i \in 1..Len(MessagesOf(id)) : MessagesOf(id)[i].payload.uuid = u

\* C15: a malformed line is retried: when a poll of the local watcher of a1
\* has completed and line k of the log, which an earlier poll of that watcher
\* failed to parse, is now a well-formed user or assistant record with
\* content, the message of that record has been emitted.
C15_MalformedRetried ==
    \A k \in 1..Len(Lines) :
        (PolledTurn(k) /\ MapHas(transcriptWatchers, A1)
                       /\ k \in MapGet(transcriptWatchers, A1).skipped) =>
            Emitted(A1, Lines[k].uuid)

\* C16: a successful poll considers every record of the log as it is: after
\* a poll of the local watcher of a1 that read the log, the id of every
\* well-formed user or assistant record with content, at whatever line of the
\* log, has been seen by the watcher (it was seen before or is emitted now).
C16_EveryRecordConsidered ==
    (JustPolled /\ MapHas(transcriptWatchers, A1)) =>
        \A k \in 1..Len(Lines) :
            (IsRecord(Lines[k]) /\ IsTurn(Lines[k])) =>
                Lines[k].uuid \in MapGet(transcriptWatchers, A1).seenUuids

\* the seen-id set and the line counter of the watcher of id
TailerState(id) ==
    [seenUuids     |-> MapGet(transcriptWatchers, id).seenUuids,
     lastLineCount |-> MapGet(transcriptWatchers, id).lastLineCount]

\* C17: a poll whose read of the log fails emits nothing and leaves the
\* state of the tailer unchanged: a timer poll of the local watcher while the
\* file is absent changes no watcher, and a failed read of the WSL watcher
\* that answers changes neither its seen-id set nor its line counter; neither
\* emits an event, stores a message or sends a frame.
C17_FailedReadChangesNothing ==
    [][/\ (last'.op = "tick" /\ last'.arg = A1 /\ ~files["t1"].exists) =>
              UNCHANGED <<transcriptWatchers, emitted, chatHistory, frames, agents>>
       /\ (/\ last'.op = "read" /\ last'.arg = W1
           /\ \E rd \in BagToSet(ReadsOf(W1)) :
                 /\ ~rd.read.exists
                 /\ ReadsOf(W1)' = ReadsOf(W1) (-) SetToBag({rd})) =>
              /\ TailerState(W1)' = TailerState(W1)
              /\ UNCHANGED <<emitted, chatHistory, frames, agents>>]_vars

\* the local watcher of a1, which has read one line and emitted its message,
\* has just polled while the log is absent
C17_Witness ==
    /\ last.op = "tick" /\ last.arg = A1
    /\ ~files["t1"].exists
    /\ TailerState(A1).lastLineCount > 0
    /\ Len(MessagesOf(A1)) > 0

\* C18: get-or-create for an agent that exists without a transcript handle,
\* called with a handle, stores the handle on the agent and changes no other
\* field and no other agent, returns that agent, emits no 'agent_connected',
\* and leaves a tailer of the agent that reads the handle it was given.
C18_HandleAttachedLater ==
    \A id \in AllIds, path \in Paths :
        (HasAgent(Manager, id) /\ MapGet(agents, id).transcriptPath = NoPath) =>
            LET agent1 == [MapGet(agents, id) EXCEPT !.transcriptPath = path]
                Attached(r) ==
                    /\ r.ret = agent1
                    /\ r.M.agents = MapSet(agents, id, agent1)
                    /\ ConnectedIn(r.events) = <<>>
                    /\ MapHas(r.M.transcriptWatchers, id)
                    /\ MapGet(r.M.transcriptWatchers, id).agentId = id
                    /\ MapGet(r.M.transcriptWatchers, id).transcriptPath = path
            IN Attached(GetOrCreateHooksAgent(Manager, id, path, ""))

\* a step in which POST /send in instant mode starts its script, and one in
\* which that script ends and the route answers
InstantStarts ==
    /\ Len(scripts') = Len(scripts) + 1
    /\ scripts'[Len(scripts')].kind = "send"

InstantEnds ==
    \E i \in 1..Len(scripts) :
        scripts[i].kind = "send" /\ scripts' = RemoveAt(scripts, i)

\* C19: a send in instant mode has no queue interaction: neither the step
\* that starts the injection nor the step that ends it, with success or with
\* failure, changes the queue of any agent or makes a queue request.
C19_InstantLeavesQueues ==
    [][(InstantStarts \/ InstantEnds) => UNCHANGED <<messageQueues, opLog>>]_vars

\* an instant send for a1 has just failed while a message waits in the
\* queue of a1
C19_Witness ==
    /\ last.op = "POST /send" /\ last.status = 500 /\ last.arg = A1
    /\ Len(QueueOf(A1)) > 0
    /\ \E k \in 1..Len(commands) :
          commands[k].message.type = "send_message" /\ commands[k].message.instant

\* the events a step emitted and the frames it sent to ws
NewEvents == SubSeq(emitted', Len(emitted) + 1, Len(emitted'))
NewFrames(ws) == SubSeq(frames'[ws], Len(frames[ws]) + 1, Len(frames'[ws]))

\* the interest set of ws, empty for a socket without one
InterestOf(subs, ws) == IF MapHas(subs, ws) THEN MapGet(subs, ws) ELSE {}

\* C20: broadcast delivery does not depend on subscriptions: in every step
\* that emits events, every connected open client is sent one frame per
\* event, of the type and for the agent of the event, whatever its interest
\* set; and a subscribe or unsubscribe command sends no frame and changes the
\* interest set of the commanding connection only, by the agent it names.
C20_BroadcastIgnoresInterest ==
    [][/\ Len(emitted') > Len(emitted) =>
              \A ws \in clients :
                  readyState[ws] = "OPEN" =>
                      /\ Len(NewFrames(ws)) = Len(NewEvents)
                      /\ \A n \in 1..Len(NewEvents) :
                            /\ NewFrames(ws)[n].type = NewEvents[n].type
                            /\ NewFrames(ws)[n].agentId = NewEvents[n].agentId
       /\ (/\ last'.op = "ws command"
           /\ Len(commands') = Len(commands) + 1
           /\ commands'[Len(commands')].message.type \in {"subscribe", "unsubscribe"}) =>
              LET ws == last'.arg
                  id == commands'[Len(commands')].message.agentId
              IN /\ frames' = frames
                 /\ \A o \in Sockets \ {ws} :
                       InterestOf(subscriptions', o) = InterestOf(subscriptions, o)
                 /\ InterestOf(subscriptions', ws)
                       = IF commands'[Len(commands')].message.type = "subscribe"
                         THEN InterestOf(subscriptions, ws) \cup {id}
                         ELSE InterestOf(subscriptions, ws) \ {id}]_vars

\* an activity of a1 has just been broadcast to two open clients, one
\* subscribed to a1 and one that unsubscribed from it
C20_Witness ==
    /\ last.op = "POST /hooks" /\ last.status = 200
    /\ \A ws \in Sockets : ws \in clients /\ readyState[ws] = "OPEN"
    /\ InterestOf(subscriptions, 1) = {A1}
    /\ InterestOf(subscriptions, 2) = {}
    /\ \E k \in 1..Len(commands) :
          commands[k].ws = 2 /\ commands[k].message.type = "unsubscribe"
                             /\ commands[k].message.agentId = A1
    /\ \A ws \in Sockets : LastFrame(ws).type = "activity" /\ LastFrame(ws).agentId = A1

\* the entry of id in a Map of histories, empty when there is none
HistoryOf(m, id) == IF MapHas(m, id) THEN MapGet(m, id) ELSE <<>>

\* C21: in a step that emits 'agent_disconnected' for id, every connected
\* open client is sent the agent_disconnected frame of id, the relay's
\* activity history loses the entry of id and keeps the entry of every other
\* agent as it was, and the frames a connection would be sent right after
\* hold no activity frame for id.
C21_DisconnectPurgesActivity ==
    [][\A id \in AllIds :
          (Len(NewEvents) = 1 /\ NewEvents[1].type = "agent_disconnected"
                              /\ NewEvents[1].agentId = id) =>
              /\ \A ws \in clients :
                    readyState[ws] = "OPEN" =>
                        NewFrames(ws) = <<Frame("agent_disconnected", id, <<>>, 0)>>
              /\ ~MapHas(activityHistory', id)
              /\ \A o \in AllIds \ {id} :
                    /\ MapHas(activityHistory', o) = MapHas(activityHistory, o)
                    /\ HistoryOf(activityHistory', o) = HistoryOf(activityHistory, o)
              /\ FramesOf(ConnectionFrames', "activity", id) = <<>>]_vars

\* the detector has just reported the end of the process of an agent that
\* had activity stored, while a client is open and a1 has activity stored
C21_Witness ==
    /\ last.op = "scan"
    /\ Len(emitted) > 0
    /\ emitted[Len(emitted)].type = "agent_disconnected"
    /\ Len(EmittedFor("activity", emitted[Len(emitted)].agentId)) > 0
    /\ HistoryOf(activityHistory, A1) # <<>>
    /\ 1 \in clients /\ readyState[1] = "OPEN"
    /\ LastFrame(1).type = "agent_disconnected"

\* the messages of the 'chat_message' events of id, in the order emitted
ChatSince(id) ==
    LET ms == MessagesOf(id) IN [i \in 1..Len(ms) |-> ms[i].payload]

\* the relay holds the most recent 200 chat messages of every agent
ChatBounded ==
    \A id \in AllIds :
        LET all == ChatSince(id)
            h   == StoredChat(id)
        IN /\ Len(h) <= 200
           /\ h = LastN(all, Min(200, Len(all)))

\* a message as a watcher emits it
AMessage(id) == ProcessEntry(NewWatcher(id, "t1", FALSE), U2).out[1]

\* C22: the relay keeps at most 200 chat messages per agent: the most recent
\* ones in the order they were parsed (exactly the 200 most recent once more
\* than 200 were parsed); and the chat history is independent of the
\* activity history: in every reachable state the handler of a chat message
\* leaves the activity history as it is and the handler of an activity leaves
\* the chat history as it is, and recording an activity in the ring of the
\* registry changes nothing else of the registry.
C22_BoundedChat ==
    /\ ChatBounded
    /\ \A id \in {A1, W1} :
          /\ OnEvent(Relay, Ev("chat_message", id, AMessage(id))).activityHistory
                = activityHistory
          /\ OnEvent(Relay, Ev("activity", id, Hello)).chatHistory = chatHistory
          /\ RecordActivity(Manager, id, Hello)
                = [Manager EXCEPT !.ringHistory = RecordActivity(Manager, id, Hello).ringHistory]

\* more than 200 messages were parsed for a1, the relay holds 200 of them
\* and an activity of a1 is stored beside them
C22_Witness ==
    /\ Len(ChatSince(A1)) > MAX_CHAT_HISTORY
    /\ Len(StoredChat(A1)) = MAX_CHAT_HISTORY
    /\ Len(StoredActivity(A1)) > 0
    /\ last.op = "tick"

\* C23: the ring of the registry holds at most 100 activities per agent, and
\* they are the most recent contents recorded for the agent, in call order
\* (exactly the 100 most recent once more than 100 were recorded).
C23_BoundedRing ==
    \A id \in AllIds :
        LET all == ActivitySince(id)
            h   == GetActivityHistory(Manager, id)
        IN /\ Len(h) <= 100
           /\ h = LastN(all, Min(100, Len(all)))

\* more than 100 activities were recorded for a1 and the ring holds 100 of
\* them, beside the ring of another agent
C23_Witness ==
    /\ Len(ActivitySince(A1)) > 100
    /\ Len(GetActivityHistory(Manager, A1)) = 100
    /\ Len(GetActivityHistory(Manager, W1)) > 0

\* the request a step has logged
Logged == opLog'[Len(opLog')]

\* C24: a peek answers the number of pending messages of the id and the
\* pending list, which is what was enqueued and not yet dequeued in the order
\* enqueued, and changes no state of the program, so that the dequeues after
\* it return what they would have returned without it; a dequeue or a peek
\* for an id with nothing pending answers the empty result and creates no
\* queue.
C24_PeekChangesNothing ==
    [][/\ last'.op = "GET /queue/peek" =>
              /\ last'.ret = QueueOf(last'.arg)
              /\ Logged.op = "peek" /\ Logged.size = Len(QueueOf(last'.arg))
              /\ Dequeued(last'.arg) \o last'.ret = Enqueued(last'.arg)
              /\ UNCHANGED <<agents, ringHistory, transcriptWatchers, knownProcesses,
                             nextOid, clients, readyState, activityHistory, chatHistory,
                             frames, clock, messageQueues, scripts, files, emitted,
                             subscriptions, calls>>
       /\ (last'.op \in {"GET /queue", "GET /queue/peek"}
             /\ Len(opLog') = Len(opLog) + 1 /\ QueueOf(last'.arg) = <<>>) =>
              /\ messageQueues' = messageQueues
              /\ last'.ret = <<>>
              /\ ~Logged.hasMessage /\ Logged.size = 0]_vars

\* a peek has just shown two different pending messages of a1, after a
\* message of a1 was dequeued
C24_Witness ==
    /\ last.op = "GET /queue/peek" /\ last.arg = A1
    /\ Len(last.ret) = 2 /\ last.ret[1] # last.ret[2]
    /\ Len(Dequeued(A1)) > 0

\* the ids whose agent a hook event registered: such an agent has no pid
HookCreated == {id \in AllIds : HasAgent(Manager, id) /\ MapGet(agents, id).pid = ""}

\* C25: an agent registered by a hook event stays in the registry, as the
\* agent it was registered as, and no 'agent_disconnected' is emitted for it.
C25_HookAgentsStay ==
    [][\A id \in HookCreated :
          /\ MapHas(agents', id)
          /\ MapGet(agents', id).oid = MapGet(agents, id).oid
          /\ \A i \in 1..Len(NewEvents) :
                ~(NewEvents[i].type = "agent_disconnected" /\ NewEvents[i].agentId = id)]_vars

\* C26: the chat of a registered agent that has a transcript path, as
\* answered over REST, is the list of messages read from the agent's log, in
\* the order of the log.
C26_ChatIsTranscriptReplay ==
    (/\ last.op = "GET /agents/:id/chat"
     /\ HasAgent(Manager, last.arg)
     /\ MapGet(agents, last.arg).transcriptPath # NoPath) =>
       /\ last.status = 200
       /\ last.ret = readTranscript(ReadFile(MapGet(agents, last.arg).transcriptPath))

\* the connection has sent a frame that was not JSON
SentInvalid(ws) ==
    \E i \in 1..Len(commands) : commands[i] = [ws |-> ws, message |-> NotJson]

\* the message of the command a step has handled
Handling == commands'[Len(commands')].message

\* C27: a frame that is not JSON gets no reply and no other frame, its
\* connection stays a connected client, open, and the registry, the queues,
\* the histories and the interest of every connection stay as they are; a
\* command sent later on the same connection is handled: a list_agents is
\* answered the list of agents, a subscribe or unsubscribe adds or removes
\* the id in the interest of the connection.
C27_InvalidFrameIgnored ==
    [][/\ last'.op = "ws invalid" =>
              /\ frames' = frames
              /\ last'.arg \in clients' /\ readyState'[last'.arg] = "OPEN"
              /\ UNCHANGED <<agents, ringHistory, transcriptWatchers, clients, readyState,
                             activityHistory, chatHistory, messageQueues, subscriptions,
                             scripts, calls, emitted>>
       /\ (last'.op = "ws command" /\ SentInvalid(last'.arg)) =>
              /\ Handling.type = "list_agents" =>
                    NewFrames(last'.arg)
                       = <<Frame("agents_list", <<>>, GetAgents(Manager), 0)>>
              /\ Handling.type = "subscribe" =>
                    InterestOf(subscriptions', last'.arg)
                       = InterestOf(subscriptions, last'.arg) \cup {Handling.agentId}
              /\ Handling.type = "unsubscribe" =>
                    InterestOf(subscriptions', last'.arg)
                       = InterestOf(subscriptions, last'.arg) \ {Handling.agentId}]_vars

\* while a1 is registered, a connection has sent a frame that is not JSON and
\* then a list_agents, which was answered
C27_Witness ==
    /\ last.op = "ws command" /\ last.arg = 1
    /\ Len(commands) = 2 /\ commands[1] = [ws |-> 1, message |-> NotJson]
    /\ commands[2].message.type = "list_agents"
    /\ LastFrame(1).type = "agents_list"
    /\ HasAgent(Manager, A1)

\* the kind an id's first part stands for, in any case of letters
PrefixKind(agentId) ==
    IF agentId # <<>> /\ agentId[1] \in {"antigravity", "ANTIGRAVITY"} THEN "antigravity"
    ELSE IF agentId # <<>> /\ agentId[1] \in {"copilot", "Copilot"} THEN "copilot"
    ELSE "claude-code"

HintKind(source) == IF source = "claude" THEN "claude-code" ELSE source

Hints == {"antigravity", "copilot", "claude-code", "claude"}

\* the agent a get-or-create call builds or finds in the current registry
Got(agentId, source) == GetOrCreateHooksAgent(Manager, agentId, NoPath, source)

Cut(t, n) == IF Len(t) > n THEN SubSeq(t, 1, n) ELSE t

\* the name of the tool in the data of a hook event
ToolOf(data) ==
    IF data.tool_name # <<>> THEN data.tool_name
    ELSE IF data.name # <<>> THEN data.name ELSE <<"tool">>

\* the table of activity strings
TableString(eventType, data) ==
    IF eventType = "SessionStart" THEN <<"Session started">>
    ELSE IF eventType = "UserPromptSubmit"
    THEN <<"User: ">> \o (IF data.prompt # <<>> THEN Cut(data.prompt, 100)
                          ELSE <<"prompt">>)
    ELSE IF eventType = "PreToolUse" THEN <<"tool: ">> \o ToolOf(data)
    ELSE IF eventType = "PostToolUse"
    THEN <<IF data.error THEN "failed " ELSE "ok ">> \o ToolOf(data)
    ELSE IF eventType = "Notification"
    THEN <<"notice: ">> \o (IF data.message # <<>> THEN data.message
                            ELSE IF data.content # <<>> THEN data.content
                            ELSE <<"notification">>)
    ELSE IF eventType = "Stop"
    THEN IF data.assistant_response = <<>> THEN <<"Response complete">>
         ELSE <<"Claude: ">> \o Cut(data.assistant_response, 150)
              \o (IF Len(data.assistant_response) > 150 THEN <<"...">> ELSE <<>>)
    ELSE <<eventType>>

\* C29: an accepted hook event is answered with the activity string the
\* table gives for its type and data (the prompt cut to 100, the response cut
\* to 150 and followed by '...' when longer, the name of the event for a type
\* outside the table); the ring of the agent grows by that one string at its
\* end, and the step emits one 'activity' event, for the agent, carrying it.
C29_OneActivityPerHook ==
    [][(last'.op = "POST /hooks" /\ last'.status = 200) =>
          LET body == last'.arg
              text == TableString(body.eventType, body.data)
              acts == SelectSeq(NewEvents, LAMBDA e : e.type = "activity")
          IN /\ last'.ret = text
             /\ GetActivityHistory(Manager', body.agentId)
                   = GetActivityHistory(Manager, body.agentId) \o <<text>>
             /\ acts = <<Ev("activity", body.agentId, text)>>]_vars

\* after a prompt of 101 characters, a Stop with a response of 151 has been
\* accepted
C29_Witness ==
    /\ last.op = "POST /hooks" /\ last.status = 200
    /\ last.arg.eventType = "Stop"
    /\ Len(last.arg.data.assistant_response) = 151
    /\ Len(GetActivityHistory(Manager, A1)) = 2
    /\ Len(GetActivityHistory(Manager, A1)[1]) = 101
    /\ Len(GetActivityHistory(Manager, A1)[2]) = 152

\* the records of the log of an agent that give a message, parsed, in the
\* order of the log
MessagesOfLog(id) ==
    LET read    == files[MapGet(agents, id).transcriptPath]
        Good(e) == /\ e.kind = "json" /\ e.type \in {"user", "assistant"}
                   /\ ~ParseMessage(e).null
        good    == SelectSeq(read.content, Good)
    IN [i \in 1..Len(good) |-> ParseMessage(good[i])]

\* C30: the messages asked for an agent with a log are one per user or
\* assistant record of the log that parses to a message, in the order of the
\* log, the records of an id that a poll has emitted or that the log repeats
\* included; the call leaves the manager, and with it the line count and the
\* seen ids of the agent's tailer, as they are.
C30_AllMessagesUnfiltered ==
    /\ \A id \in {A1, W1} :
          /\ getTranscriptMessages(Manager, id).M = Manager
          /\ HasAgent(Manager, id) =>
                getTranscriptMessages(Manager, id).out = MessagesOfLog(id)
    /\ last.op = "getTranscriptMessages" =>
          last.ret = getTranscriptMessages(Manager, last.arg).out

\* the messages of a1 were asked for after its tailer had emitted u1: the log
\* holds the record u1 twice, and two messages were returned
C30_Witness ==
    /\ last.op = "getTranscriptMessages" /\ last.arg = A1
    /\ files["t1"].content = <<U1, U1>>
    /\ Len(last.ret) = 2 /\ last.ret[1].uuid = "u1" /\ last.ret[2].uuid = "u1"
    /\ MapGet(transcriptWatchers, A1).seenUuids = {"u1"}
    /\ MapGet(transcriptWatchers, A1).lastLineCount = 2
    /\ Len(EmittedFor("chat_message", A1)) = 1

\* the 'activity' frames of a sequence of frames
ActivityFrames(r) == SelectSeq(r, LAMBDA f : f.type = "activity")

\* the times of the activities a client has been sent so far
TimesSent(ws) ==
    {ActivityFrames(frames[ws])[i].timestamp : i \in 1..Len(ActivityFrames(frames[ws]))}

\* the times of the activities the relay stores
TimesStored ==
    UNION {{StoredActivity(id)[i].timestamp : i \in 1..Len(StoredActivity(id))} :
             id \in AllIds}

\* C31: no step sends a client an activity it was sent before, or one
\* activity twice; a step that records an activity sends it, once, to the
\* clients that are connected and open and to no other; a connection is sent
\* the activities recorded before it that the relay still stores, once each,
\* and never more than 50 of one agent.
C31_ExactlyOnceDelivery ==
    [][\A ws \in Sockets :
          LET new == ActivityFrames(NewFrames(ws)) IN
          /\ \A i \in 1..Len(new) :
                /\ new[i].timestamp \notin TimesSent(ws)
                /\ \A j \in 1..Len(new) : new[j].timestamp = new[i].timestamp => j = i
          /\ clock' # clock =>
                new = IF ws \in clients /\ readyState[ws] = "OPEN"
                      THEN <<Frame("activity", emitted'[Len(emitted')].agentId,
                                   emitted'[Len(emitted')].payload, clock')>>
                      ELSE <<>>
          /\ (last'.op = "connect" /\ last'.arg = ws) =>
                /\ {new[i].timestamp : i \in 1..Len(new)} = TimesStored
                /\ \A id \in AllIds : Len(FramesOf(new, "activity", id)) <= 50
          /\ (clock' = clock /\ last'.op # "connect") => new = <<>>]_vars

\* a client has been sent 51 activities, each once: the first one recorded
\* never, the last one as it was recorded
C31_Witness ==
    /\ last.op = "POST /hooks" /\ clock = 52
    /\ readyState[1] = "OPEN"
    /\ Len(ActivityFrames(frames[1])) = 51
    /\ TimesSent(1) = 2..52

\* C32: the relay's activity history and the registry's ring hold entries
\* only for the agents that are registered.
C32_HistoriesOfRegisteredOnly ==
    \A id \in AllIds :
       (MapHas(activityHistory, id) \/ MapHas(ringHistory, id)) => HasAgent(Manager, id)

\* the 'agent_connected' and 'agent_disconnected' events of an id, in order
LifecycleOf(id) ==
    SelectSeq(emitted, LAMBDA e : e.agentId = id
                                  /\ e.type \in {"agent_connected", "agent_disconnected"})

\* C33: the 'agent_connected' and 'agent_disconnected' events of an id
\* alternate, the first being 'agent_connected', and the id is registered
\* exactly when the latest of them is 'agent_connected': no agent is
\* connected twice in a row, none is disconnected that is not registered.
C33_LifecycleAlternates ==
    \A id \in AllIds :
       LET evs == LifecycleOf(id) IN
       /\ \A i \in 1..Len(evs) :
             evs[i].type = IF i % 2 = 1 THEN "agent_connected" ELSE "agent_disconnected"
       /\ HasAgent(Manager, id) <=> Len(evs) % 2 = 1

\* an id registered by a hook event was detected, terminated and detected again
C33_Witness ==
    /\ Len(LifecycleOf(P1Id)) = 3
    /\ LifecycleOf(P1Id)[1].payload.pid = ""
    /\ LifecycleOf(P1Id)[3].payload.pid = "7"
    /\ HasAgent(Manager, P1Id)
    /\ last.op = "scan"

\* C34: when the answer to a forwarded send_message reaches the relay and
\* the client is sent a message_sent frame, the forwarded request was
\* answered 200: it has appended the message to the queue of the agent.
C34_AckOnlyIfQueued ==
    (/\ last.op = "ws response"
     /\ readyState[last.arg] = "OPEN"
     /\ LastFrame(last.arg).type = "message_sent") =>
        /\ last.status = 200
        /\ \E k \in 1..Len(opLog) :
              opLog[k].op = "enqueue" /\ opLog[k].id = LastFrame(last.arg).agentId

\* C35: for every registered agent the contents of the relay's activity
\* history are the last min(50, n) elements of the agent's ring in the
\* registry, n being the length of the ring.
C35_HistoryIsRingSuffix ==
    \A id \in AllIds :
       HasAgent(Manager, id) =>
          LET ring == GetActivityHistory(Manager, id)
              keep == LastN(ring, IF Len(ring) < 50 THEN Len(ring) ELSE 50)
          IN [i \in 1..Len(StoredActivity(id)) |-> StoredActivity(id)[i].content] = keep

\* C36: under fair polling the k-th message enqueued for an id is in the end
\* the k-th message a dequeue returns, whether the agent is still registered
\* or not.
C36_EnqueuedEventuallyDequeued ==
    \A k \in 1..3 :
       (Len(Enqueued(P1Id)) >= k)
          ~> (Len(Dequeued(P1Id)) >= k /\ Dequeued(P1Id)[k] = Enqueued(P1Id)[k])

\* two messages were enqueued for an agent, the agent was removed, and a
\* dequeue has then returned the second of them
C36_Witness ==
    /\ last.op = "GET /queue" /\ last.arg = P1Id
    /\ ~HasAgent(Manager, P1Id)
    /\ Len(EmittedFor("agent_disconnected", P1Id)) = 1
    /\ Enqueued(P1Id) = <<<<"x">>, <<"y">>>>
    /\ Dequeued(P1Id) = Enqueued(P1Id)
    /\ opLog[Len(opLog) - 1].op = "dequeue"

---------------------------------------------------------------------------
(* Overlapping scans                                                       *)

ScansDone == scripts # <<>> /\ \A i \in 1..Len(scripts) : scripts[i].done

\* the listing obtained by the scan that started last
LastStarted == scripts[Len(scripts)].detected

\* C37: once every scan that was started has completed, whatever the order of
\* completion, the known processes are those listed by the scan that started
\* last, and the latest lifecycle event of each of them is not its termination
C37_LastStartedScanWins ==
    ScansDone =>
       /\ MapKeys(knownProcesses) = {ProcessKey(LastStarted[k]) : k \in 1..Len(LastStarted)}
       /\ \A k \in 1..Len(LastStarted) :
             LET evs == LifecycleOf(ProcessToAgentId(LastStarted[k]))
             IN evs # <<>> /\ evs[Len(evs)].type = "agent_connected"

---------------------------------------------------------------------------
(* One tailer per agent, one handle per agent                              *)

TailersOf(tw, id) == {i \in 1..Len(tw) : tw[i].k = id}

\* C38: an agent id never has two tailers; a tailer, once started, is not
\* replaced; and the transcript handle of a registered agent that has one is
\* left as it is by every later call, whatever handle the call carries
C38_OneTailerHandleWriteOnce ==
    [][\A id \in AllIds :
          /\ Cardinality(TailersOf(transcriptWatchers', id)) <= 1
          /\ MapHas(transcriptWatchers, id) =>
                /\ MapHas(transcriptWatchers', id)
                /\ MapGet(transcriptWatchers', id).transcriptPath
                      = MapGet(transcriptWatchers, id).transcriptPath
          /\ (/\ MapHas(agents, id)
              /\ MapGet(agents, id).transcriptPath # NoPath
              /\ MapHas(agents', id)
              /\ MapGet(agents', id).oid = MapGet(agents, id).oid) =>
                MapGet(agents', id).transcriptPath = MapGet(agents, id).transcriptPath]_vars

\* the agent holds the handle "t1" with its tailer, and a later
\* get-or-create that carried the handle "t2" has been answered
C38_Witness ==
    /\ last.op = "POST /hooks"
    /\ last.arg = SessionStart(P1Id, "t2")
    /\ MapHas(agents, P1Id)
    /\ MapGet(agents, P1Id).transcriptPath = "t1"
    /\ Cardinality(TailersOf(transcriptWatchers, P1Id)) = 1
    /\ MapGet(transcriptWatchers, P1Id).transcriptPath = "t1"

---------------------------------------------------------------------------
(* The mobile client's mirror                                              *)

Occurrences(s, x) == Cardinality({i \in 1..Len(s) : s[i] = x})

ListOf(m, id) == IF MapHas(m, id) THEN MapGet(m, id) ELSE <<>>

\* the chat messages the server emitted for id, as the client stores them
ServerChat(id) ==
    LET evs == EmittedFor("chat_message", id)
    IN [i \in 1..Len(evs) |-> [role |-> evs[i].payload.role,
                               content |-> evs[i].payload.content,
                               timestamp |-> evs[i].payload.timestamp]]

\* each list of the mirror holds a server-side item at most once
HoldsEachOnce(mirror) ==
    \A id \in AllIds :
       /\ LET acts == ListOf(mirror.activitiesPerAgent, id) IN
          \A i, j \in 1..Len(acts) : acts[i].timestamp = acts[j].timestamp => i = j
       /\ LET chat == ListOf(mirror.chatMessagesPerAgent, id) IN
          \A i \in 1..Len(chat) :
             Occurrences(chat, chat[i]) <= Occurrences(ServerChat(id), chat[i])

\* C39: whether the client's first connection ended by disconnect() or by a
\* failure, after it has connected again each of its per-agent lists holds
\* every activity and every chat message of the server at most once
C39_MirrorHoldsEachOnce == \A byDisconnect \in BOOLEAN : HoldsEachOnce(Mirror(byDisconnect))

---------------------------------------------------------------------------
(* A watcher that was stopped                                              *)

\* C40: a watcher on which stopWatching has returned has no poll timer and has
\* emitted no 'message' since, also when it was stopped during its initial read
C40_StoppedWatcherIsSilent ==
    \A i \in 1..Len(scripts) :
       scripts[i].kind = "tailer" =>
          /\ ~scripts[i].w.watchInterval
          /\ scripts[i].late = <<>>

============================================================================
